---- MODULE Spec2Model ----
(***************************************************************************)
(* KingStoreV: the URL validator (utils.py), the inline-keyboard grid      *)
(* engine (services/keyboard.py), the published-post edit session          *)
(* (handlers/post_edit_flow.py), the Long-Payload Store                    *)
(* (services/callback_store.py) and the draft session (handlers/posts.py,  *)
(* services/posts.py).                                                     *)
(*                                                                         *)
(* Python values: None is the string NoneV; an Optional[int] is a sequence *)
(* of length 0 (None) or 1.  A button is the dict {"text", "callback_data",*)
(* "url"}; a key that is absent from the dict holds NoneV.  A grid is a    *)
(* sequence of rows, a row a sequence of buttons; Python's 0-based indices *)
(* are kept in the arguments and shifted by one at the sequence access.    *)
(***************************************************************************)
EXTENDS Integers, Sequences, FiniteSets, TLC

NoneV == "<None>"

\* Python truthiness of an Optional[str]
Truthy(x) == x # NoneV /\ x # ""

----------------------------------------------------------------------------
(* Bounds of the model *)

\* most rows a grid is grown to by the enumerated operations
MaxRows == 2
\* most buttons a grid holds
MaxButtons == 3
\* row / column arguments range over -(MaxCoord) .. MaxCoord
MaxCoord == 3
\* most rows and most buttons of a session's staged grid
MaxSessRows == 2
MaxSessButtons == 2
\* the operator's row / column inputs range over -1 .. MaxSessCoord
MaxSessCoord == 1
\* the clock readings a row's updated_at takes: 0 .. MaxStamp
MaxStamp == 1

----------------------------------------------------------------------------
(* Sequence helpers standing for Python list operations *)

\* list.pop(i) for 0 <= i < len: the list without element i
PopAt(s, i) == [k \in 1..(Len(s) - 1) |-> IF k <= i THEN s[k] ELSE s[k + 1]]

\* list.insert(i, x) for 0 <= i <= len
InsertAt(s, i, x) ==
    [k \in 1..(Len(s) + 1) |-> IF k <= i THEN s[k] ELSE IF k = i + 1 THEN x ELSE s[k - 1]]

\* keyboard[r] = row, for 0 <= r < len
SetRow(kb, r, row) == [kb EXCEPT ![r + 1] = row]

RECURSIVE Flatten(_)
\* [b for r in keyboard for b in r]
Flatten(kb) == IF kb = <<>> THEN <<>> ELSE Head(kb) \o Flatten(Tail(kb))

ButtonCount(kb) == Len(Flatten(kb))

\* the bag of buttons of a sequence, as a function button -> multiplicity
BagOf(s) == [b \in {s[i] : i \in DOMAIN s} |-> Cardinality({i \in DOMAIN s : s[i] = b})]

----------------------------------------------------------------------------
(* services/keyboard.py: the grid mutation operations.  Each operator      *)
(* returns [raised, kb]: whether the call raised, and the list object as   *)
(* the call left it (the operations mutate the caller's list in place).    *)

Ret(kb) == [raised |-> FALSE, kb |-> kb]
Raise(kb) == [raised |-> TRUE, kb |-> kb]

add_row(keyboard) == Ret(Append(keyboard, <<>>))

\* a dict that never gets the "url" key: what DeleteThenAddKeepsGrid must notice
MkButtonWithoutUrl(text, callback_data, url) ==
    [text |-> text,
     callback_data |-> IF Truthy(callback_data) THEN callback_data ELSE NoneV,
     url |-> NoneV]

MkButton(text, callback_data, url) ==
    [text |-> text,
     callback_data |-> IF Truthy(callback_data) THEN callback_data ELSE NoneV,
     url |-> IF Truthy(url) THEN url ELSE NoneV]

\* the index test without "row_index < 0": what AddButtonAppends must notice
add_button_to_row_wrapping(keyboard, row_index, text, callback_data, url) ==
    LET btn == MkButton(text, callback_data, url) IN
    IF row_index = <<>> \/ row_index[1] >= Len(keyboard) \/ row_index[1] < 0 - Len(keyboard)
    THEN Ret(Append(keyboard, <<btn>>))
    ELSE LET r == IF row_index[1] < 0 THEN Len(keyboard) + row_index[1] ELSE row_index[1]
         IN Ret(SetRow(keyboard, r, Append(keyboard[r + 1], btn)))

add_button_to_row(keyboard, row_index, text, callback_data, url) ==
    LET btn == MkButton(text, callback_data, url) IN
    IF row_index = <<>> \/ row_index[1] < 0 \/ row_index[1] >= Len(keyboard)
    THEN Ret(Append(keyboard, <<btn>>))
    ELSE Ret(SetRow(keyboard, row_index[1], Append(keyboard[row_index[1] + 1], btn)))

\* a delete that leaves the emptied row in the grid: what DeleteRemovesOne must notice
delete_button_unpruned(keyboard, row_index, col_index) ==
    IF keyboard = <<>> THEN Ret(keyboard)
    ELSE IF 0 <= row_index /\ row_index < Len(keyboard)
            /\ 0 <= col_index /\ col_index < Len(keyboard[row_index + 1])
    THEN Ret(SetRow(keyboard, row_index, PopAt(keyboard[row_index + 1], col_index)))
    ELSE Ret(keyboard)

delete_button(keyboard, row_index, col_index) ==
    IF keyboard = <<>> THEN Ret(keyboard)
    ELSE IF 0 <= row_index /\ row_index < Len(keyboard)
    THEN LET row == keyboard[row_index + 1] IN
         IF 0 <= col_index /\ col_index < Len(row)
         THEN LET popped == PopAt(row, col_index) IN
              IF popped = <<>> THEN Ret(PopAt(keyboard, row_index))
              ELSE Ret(SetRow(keyboard, row_index, popped))
         ELSE Ret(keyboard)
    ELSE Ret(keyboard)

RECURSIVE GrowTo(_, _)
\* while len(keyboard) <= to_r: keyboard.append([])
GrowTo(kb, to_r) == IF Len(kb) <= to_r THEN GrowTo(Append(kb, <<>>), to_r) ELSE kb

\* lines 161-169: grow, index the target row as Python does, clamp the column, insert
MoveInsert(kb, btn, to_r, to_c) ==
    LET grown == GrowTo(kb, to_r)
        n == Len(grown)
    IN IF to_r < -n THEN Raise(grown)                 \* keyboard[to_r]: IndexError
       ELSE LET r == IF to_r < 0 THEN n + to_r ELSE to_r   \* negative index counts from the end
                target_row == grown[r + 1]
                c == IF to_c < 0 THEN 0
                     ELSE IF to_c > Len(target_row) THEN Len(target_row) ELSE to_c
            IN Ret(SetRow(grown, r, InsertAt(target_row, c, btn)))

\* a move that keeps the target index after the source row was removed:
\* what MoveLandsInTargetRow must notice
move_button_undecremented(keyboard, from_r, from_c, to_r, to_c) ==
    IF keyboard = <<>> THEN Ret(keyboard)
    ELSE IF ~(0 <= from_r /\ from_r < Len(keyboard)) THEN Ret(keyboard)
    ELSE LET row == keyboard[from_r + 1] IN
         IF ~(0 <= from_c /\ from_c < Len(row)) THEN Ret(keyboard)
         ELSE LET btn == row[from_c + 1]
                  popped == PopAt(row, from_c)
              IN IF popped = <<>>
                 THEN MoveInsert(PopAt(keyboard, from_r), btn, to_r, to_c)
                 ELSE MoveInsert(SetRow(keyboard, from_r, popped), btn, to_r, to_c)

move_button(keyboard, from_r, from_c, to_r, to_c) ==
    IF keyboard = <<>> THEN Ret(keyboard)
    ELSE IF ~(0 <= from_r /\ from_r < Len(keyboard)) THEN Ret(keyboard)
    ELSE LET row == keyboard[from_r + 1] IN
         IF ~(0 <= from_c /\ from_c < Len(row)) THEN Ret(keyboard)
         ELSE LET btn == row[from_c + 1]
                  popped == PopAt(row, from_c)
              IN IF popped = <<>>
                 THEN MoveInsert(PopAt(keyboard, from_r), btn,
                                 IF from_r < to_r THEN to_r - 1 ELSE to_r, to_c)
                 ELSE MoveInsert(SetRow(keyboard, from_r, popped), btn, to_r, to_c)

RECURSIVE ChunkFromEnd(_, _)
\* slices taken from the end of the list first: what ReformatIdempotent must notice
ChunkFromEnd(flat, cols) ==
    IF flat = <<>> THEN <<>>
    ELSE IF Len(flat) <= cols THEN <<flat>>
    ELSE <<SubSeq(flat, Len(flat) - cols + 1, Len(flat))>>
         \o ChunkFromEnd(SubSeq(flat, 1, Len(flat) - cols), cols)

RECURSIVE Chunk(_, _)
\* [flat[i:i+cols] for i in range(0, len(flat), cols)]
Chunk(flat, cols) ==
    IF flat = <<>> THEN <<>>
    ELSE IF Len(flat) <= cols THEN <<flat>>
    ELSE <<SubSeq(flat, 1, cols)>> \o Chunk(SubSeq(flat, cols + 1, Len(flat)), cols)

\* a reformat that takes cols as given: range() with a negative step is empty
\* and with step 0 raises: what ReformatChunks must notice
reformat_columns_unclamped(keyboard, cols) ==
    IF keyboard = <<>> THEN Ret(keyboard)
    ELSE IF cols = 0 THEN Raise(keyboard)
    ELSE IF cols < 0 THEN Ret(<<>>)
    ELSE Ret(Chunk(Flatten(keyboard), cols))

reformat_columns(keyboard, cols) ==
    IF keyboard = <<>> THEN Ret(keyboard)
    ELSE Ret(Chunk(Flatten(keyboard), IF cols <= 0 THEN 1 ELSE cols))

----------------------------------------------------------------------------
(* utils.py: validate_button_url, on the URLs the model uses.  The result  *)
(* is <<ok, normalized>>.                                                  *)

validate_button_url(url) ==
    CASE url = "https://example.com" -> <<TRUE, "https://example.com">>
      [] url = "http://t.me/chan/5"  -> <<TRUE, "https://t.me/chan/5">>
      [] url = "https://t.me/chan/5" -> <<TRUE, "https://t.me/chan/5">>
      [] OTHER                       -> <<FALSE, NoneV>>

MAX_CALLBACK_BYTES == 64

(* len(str(cb).encode("utf-8")).  "longtok" stands for a token of 90 ASCII   *)
(* characters and "wide25" for a text of 25 characters of four bytes each;  *)
(* "wide20" and "wide15" are its first 20 and 15 characters.  Every other   *)
(* string of the model is ASCII and has one byte for each character.        *)
ByteLen(cb) ==
    CASE cb = "longtok" -> 90
      [] cb = "longtok[:64]" -> 64
      [] cb = "btn:wide20" -> 84
      [] cb = "btn:wide15" -> 64
      [] OTHER          -> Len(cb)

\* a cut that cuts nothing: what EmittedTokensFit must notice
TruncatedNowhere(cb) == cb
(* str(cb).encode("utf-8")[:MAX_CALLBACK_BYTES].decode("utf-8", errors="ignore"): *)
(* the longest prefix of whole characters within 64 bytes                   *)
Truncated(cb) ==
    CASE cb = "longtok" -> "longtok[:64]"
      [] cb = "btn:wide20" -> "btn:wide15"
      [] OTHER -> cb

\* text[:20]
Prefix20(text) == IF text = "wide25" THEN "wide20" ELSE text

(* validate_keyboard_structure: <<ok, reason, keyboard>>.  The URL of every *)
(* button passed before the first failure is normalized in place, so the    *)
(* grid is part of the result.  A dict without the "text" key holds NoneV.  *)
ValidateButton(btn) ==
    LET has_url == Truthy(btn.url)
        has_cb == Truthy(btn.callback_data)
    IN IF btn.text = NoneV THEN <<FALSE, "missing text", btn>>
       ELSE IF ~(has_url \/ has_cb) THEN <<FALSE, "must have url or callback_data", btn>>
       ELSE IF has_url /\ ~validate_button_url(btn.url)[1] THEN <<FALSE, "invalid url", btn>>
       ELSE LET nb == IF has_url THEN [btn EXCEPT !.url = validate_button_url(btn.url)[2]] ELSE btn
            IN IF has_cb /\ ByteLen(btn.callback_data) > MAX_CALLBACK_BYTES
               THEN <<FALSE, "too long", nb>>
               ELSE <<TRUE, "OK", nb>>

RECURSIVE ValidateFrom(_, _)
\* the scan over the flattened cells from position i on: <<ok, reason, cells>>
ValidateFrom(cells, i) ==
    IF i > Len(cells) THEN <<TRUE, "OK", cells>>
    ELSE LET v == ValidateButton(cells[i])
             done == [cells EXCEPT ![i] = v[3]]
         IN IF v[1] THEN ValidateFrom(done, i + 1) ELSE <<FALSE, v[2], done>>

RECURSIVE Reshape(_, _)
\* the cells put back into rows of the lengths of kb
Reshape(kb, cells) ==
    IF kb = <<>> THEN <<>>
    ELSE <<SubSeq(cells, 1, Len(Head(kb)))>>
         \o Reshape(Tail(kb), SubSeq(cells, Len(Head(kb)) + 1, Len(cells)))

validate_keyboard_structure(keyboard) ==
    LET v == ValidateFrom(Flatten(keyboard), 1)
    IN <<v[1], v[2], Reshape(keyboard, v[3])>>

----------------------------------------------------------------------------
(* services/callback_store.py: the Long-Payload Store.  A table is a       *)
(* function id -> data; data is the JSON text of the payload.              *)

\* how many ids make_short_id draws from
MaxIds == 2
\* secrets.token_hex(6), 12 hex characters: the ids a call may return
make_short_id == {"00000000000" \o ToString(n) : n \in 1..MaxIds}

\* json.dumps / json.loads on the payload dicts; any other text does not parse.
\* An Optional[dict] is a sequence of length 0 (None) or 1.
json_dumps(payload) == <<"json", payload>>
json_loads(data) == IF Len(data) = 2 /\ data[1] = "json" THEN <<data[2]>> ELSE <<>>

\* a store that keeps the token cut to 64 bytes: what LongTokensExternalized must notice
store_payload_cut(table, payload, payload_id) ==
    IF payload_id \in DOMAIN table
    THEN [raised |-> TRUE, table |-> table, id |-> NoneV]
    ELSE [raised |-> FALSE, id |-> payload_id,
          table |-> [x \in (DOMAIN table) \cup {payload_id} |->
                        IF x = payload_id
                        THEN json_dumps([callback |-> Truncated(payload.callback)])
                        ELSE table[x]]]

\* INSERT OR REPLACE: a store that takes the place of the row of the same id:
\* what StoreLoadDelete must notice
store_payload_replacing(table, payload, payload_id) ==
    [raised |-> FALSE, id |-> payload_id,
     table |-> [x \in (DOMAIN table) \cup {payload_id} |->
                   IF x = payload_id THEN json_dumps(payload) ELSE table[x]]]

\* INSERT INTO callback_payloads: the id is the primary key, a second row
\* with the same id makes execute() raise
store_payload(table, payload, payload_id) ==
    IF payload_id \in DOMAIN table
    THEN [raised |-> TRUE, table |-> table, id |-> NoneV]
    ELSE [raised |-> FALSE, id |-> payload_id,
          table |-> [x \in (DOMAIN table) \cup {payload_id} |->
                        IF x = payload_id THEN json_dumps(payload) ELSE table[x]]]

get_payload(table, payload_id) ==
    IF payload_id \notin DOMAIN table THEN <<>> ELSE json_loads(table[payload_id])

\* DELETE FROM callback_payloads WHERE id = ?
delete_payload(table, payload_id) == [x \in (DOMAIN table) \ {payload_id} |-> table[x]]

----------------------------------------------------------------------------
(* services/keyboard.py: build_inline_markup.  The result is the markup    *)
(* (rows of emitted buttons) and the table as the stores left it; ids is   *)
(* the sequence of ids make_short_id returns to the successive stores.     *)

InlineKeyboardButton(text, callback_data, url) ==
    [text |-> text, callback_data |-> callback_data, url |-> url]

\* lines 26-66: the button emitted for btn
EmitButton(btn, table, ids) ==
    LET text == IF btn.text = NoneV THEN "Button" ELSE btn.text
        cb == IF Truthy(btn.callback_data) THEN btn.callback_data ELSE NoneV
        url == IF Truthy(btn.url) /\ validate_button_url(btn.url)[1]
               THEN validate_button_url(btn.url)[2] ELSE NoneV
    IN IF Truthy(url)
       THEN [button |-> InlineKeyboardButton(text, NoneV, url), table |-> table, ids |-> ids]
       ELSE IF Truthy(cb)
       THEN IF ByteLen(cb) <= MAX_CALLBACK_BYTES
            THEN [button |-> InlineKeyboardButton(text, cb, NoneV), table |-> table, ids |-> ids]
            ELSE LET st == store_payload(table, [callback |-> cb], Head(ids))
                 IN IF st.raised
                    THEN [button |-> InlineKeyboardButton(text, Truncated(cb), NoneV),
                          table |-> table, ids |-> Tail(ids)]
                    ELSE [button |-> InlineKeyboardButton(text, "kb_payload:" \o st.id, NoneV),
                          table |-> st.table, ids |-> Tail(ids)]
       ELSE LET fb == "btn:" \o Prefix20(text)
            IN [button |-> InlineKeyboardButton(
                              text, IF ByteLen(fb) > MAX_CALLBACK_BYTES THEN Truncated(fb) ELSE fb,
                              NoneV),
                table |-> table, ids |-> ids]

RECURSIVE BuildRow(_, _, _)
\* for btn in row: ...; buttons.append(...)
BuildRow(row, table, ids) ==
    IF row = <<>> THEN [buttons |-> <<>>, table |-> table, ids |-> ids]
    ELSE LET e == EmitButton(Head(row), table, ids)
             rest == BuildRow(Tail(row), e.table, e.ids)
         IN [buttons |-> <<e.button>> \o rest.buttons, table |-> rest.table, ids |-> rest.ids]

\* a builder that keeps every row: what BuilderKeepsShape must notice
RowKeptAlways(buttons) == TRUE
\* line 67: if buttons
RowKept(buttons) == buttons # <<>>

RECURSIVE BuildRows(_, _, _)
BuildRows(keyboard, table, ids) ==
    IF keyboard = <<>> THEN [rows |-> <<>>, table |-> table]
    ELSE LET r == BuildRow(Head(keyboard), table, ids)
             rest == BuildRows(Tail(keyboard), r.table, r.ids)
         IN [rows |-> (IF RowKept(r.buttons) THEN <<r.buttons>> ELSE <<>>) \o rest.rows,
             table |-> rest.table]

build_inline_markup(keyboard, table, ids) == BuildRows(keyboard, table, ids)

\* lines 137-151 of handlers/posts.py: the token a pressed "kb_payload:<id>" button resolves to
ResolvePayload(table, data) ==
    LET payload_id == CHOOSE id \in make_short_id : data = "kb_payload:" \o id
        payload == get_payload(table, payload_id)
    IN IF payload = <<>> THEN NoneV ELSE payload[1].callback

----------------------------------------------------------------------------
(* The published-post edit session: handlers/post_edit_flow.py             *)

Users == {1}

\* what the transport answers to one call: accepted, TelegramBadRequest, any other fault
Outcomes == {"ok", "bad_request", "fault"}

TokButton == [text |-> "A", callback_data |-> "tok", url |-> NoneV]

\* the posts table when the bot starts: one published post
InitialPosts ==
    (1 :> [text |-> "t0", photo_file_id |-> NoneV, keyboard |-> <<<<TokButton>>>>,
           published_channel |-> "@chan", published_link |-> "https://t.me/chan/10",
           published_message_id |-> <<10>>, updated_at |-> 0])

\* the channel messages that exist: the published post (message 11 does not exist)
InitialLive ==
    (<<"@chan", 10>> :> [text |-> "t0", photo |-> NoneV, keyboard |-> <<<<TokButton>>>>])

\* the argument of /editpost: nothing, a post id (2 has no row), a link, or other text
EditpostArgs ==
    {[kind |-> "none", id |-> 0, link |-> ""],
     [kind |-> "id", id |-> 1, link |-> ""],
     [kind |-> "id", id |-> 2, link |-> ""],
     [kind |-> "link", id |-> 0, link |-> "https://t.me/chan/10"],
     [kind |-> "link", id |-> 0, link |-> "hello"]}

\* get_chat_member(...).status, or the call raising
MemberStatuses == {"administrator", "creator", "member", "exception"}

\* the largest number a link of the model spells
MaxLinkNumber == 11
LinkNumbers == 0..MaxLinkNumber

\* the links of the model, as the path after "https://t.me": <name>/<number> and
\* c/<digits>/<number>
LinkNames == {"chan", "c"}
LinkChannelParts == {"5", "7"}
LinkPaths ==
    {<<n, ToString(m)>> : n \in LinkNames, m \in LinkNumbers}
      \cup {<<"c", d, ToString(m)>> : d \in LinkChannelParts, m \in LinkNumbers}

\* the text of a link
LinkText(path) ==
    IF Len(path) = 2 THEN "https://t.me/" \o path[1] \o "/" \o path[2]
    ELSE "https://t.me/" \o path[1] \o "/" \o path[2] \o "/" \o path[3]

\* the path a text spells, <<>> for a text that is no link of the model
LinkTexts == {LinkText(path) : path \in LinkPaths}
LinkPathOf == [link \in LinkTexts |-> CHOOSE path \in LinkPaths : LinkText(path) = link]
LinkPath(link) == IF link \in LinkTexts THEN LinkPathOf[link] ELSE <<>>

\* \d+ and int(...)
Numerals == {ToString(n) : n \in LinkNumbers}
NumberOf == [seg \in Numerals |-> CHOOSE n \in LinkNumbers : ToString(n) = seg]
DigitsValue(seg) == IF seg \in Numerals THEN {NumberOf[seg]} ELSE {}

\* RE_PUBLIC.search: the first segment is any [^/]+, the second starts with digits
RE_PUBLIC(path) == Len(path) >= 2 /\ path[1] # "" /\ DigitsValue(path[2]) # {}

\* RE_PRIVATE.search: "c", digits, digits
RE_PRIVATE(path) ==
    /\ Len(path) >= 3 /\ path[1] = "c"
    /\ path[2] \in LinkChannelParts /\ DigitsValue(path[3]) # {}

\* lines 29-37 on the path of the link: RE_PUBLIC is tried first
ParsePath(path) ==
    IF RE_PUBLIC(path)
    THEN <<"@" \o path[1], <<CHOOSE n \in DigitsValue(path[2]) : TRUE>>>>
    ELSE IF RE_PRIVATE(path)
    THEN <<"-100" \o path[2], <<CHOOSE n \in DigitsValue(path[3]) : TRUE>>>>
    ELSE <<NoneV, <<>>>>

ParsedLinks == [link \in LinkTexts |-> ParsePath(LinkPathOf[link])]

\* parse_post_link: <<chat, message id>>, or <<None, None>>
parse_post_link(link) == IF link \in LinkTexts THEN ParsedLinks[link] ELSE ParsePath(<<>>)

VARIABLES
    sessions,   \* _edit_sessions: user id -> session dict, defined for the users that have one
    fsm,        \* the FSMContext of each user: KBStates state and state data
    db,         \* the posts table: post id -> row
    live,       \* the channel messages: <<chat, message id>> -> content
    menus,      \* the callback data the bot has put on menus sent to each user
    origin,     \* which handler created the user's session (history variable)
    last,       \* the handler that ran last, and how it ended
    twice,      \* the last two handlers were the same apply and both succeeded
    scope,      \* what the operator does in this run: see Scopes
    calls,      \* the edit calls the last handler issued on channel messages
    writes,     \* the posts-table updates the last handler made
    grid,       \* the grid the engine operations are applied to
    gres,       \* the last engine operation: its arguments and its result
    _sessions,  \* handlers/posts.py _sessions: user id -> draft session
    callback_payloads   \* the table of the Long-Payload Store: id -> data

sessVars == <<sessions, fsm, db, live, menus, origin, last, twice, scope, calls, writes>>
gridVars == <<grid, gres>>
draftVars == <<_sessions, callback_payloads>>
vars == <<sessions, fsm, db, live, menus, origin, last, twice, scope, calls, writes, grid, gres,
          _sessions, callback_payloads>>

(* What the operator does is explored one kind of run at a time, which      *)
(* keeps the state space small.  In a "fields" run the operator stages and  *)
(* applies text and photo and, of the keyboard editor, deletes buttons,     *)
(* previews and stages.  An "add", "edit", "move" or "format" run is about  *)
(* that flow of the keyboard editor (with the add flow to build grids) and  *)
(* leaves text and photo alone.  /editpost, cancel, the keyboard menu, the  *)
(* preview, apply_keyboard and apply_all belong to every run.  Each handler *)
(* is the same in every run: a scope only says which buttons are pressed.   *)
Scopes == {"fields", "add", "edit", "move", "format"}

HasSession(u) == u \in DOMAIN sessions

\* _edit_sessions[uid] = s
PutSession(u, s) == [x \in (DOMAIN sessions) \cup {u} |-> IF x = u THEN s ELSE sessions[x]]

\* a pop that removes nothing: what SessionRemovedByCancelOrFullApply must notice
PopSessionKept(u) == sessions
\* _edit_sessions.pop(uid, None)
PopSession(u) == [x \in (DOMAIN sessions) \ {u} |-> sessions[x]]

\* state.clear(): no state, no data
FsmClear == [state |-> NoneV, kb_add_target |-> <<>>, kb_edit_target |-> <<>>]

NoMenus == [main |-> {}, kb |-> FALSE]

Ended(h, a, res) == [h |-> h, a |-> a, res |-> res]

ApplyActions == {"apply_text", "apply_photo", "apply_keyboard", "apply_all"}

\* the steps the history variable tells apart: the ones that open, end or apply a session
Tracked == ApplyActions \cup {"open", "cancel"}

\* the bookkeeping of every handler: what ran, what it called, what it wrote
Log(h, a, res, cs, ws) ==
    /\ last' = IF a \in Tracked THEN Ended(h, a, res) ELSE Ended("other", "-", "-")
    /\ twice' = (a \in ApplyActions /\ res = "ok" /\ last = Ended(h, a, "ok"))
    /\ calls' = cs
    /\ writes' = ws
    /\ UNCHANGED <<scope, grid, gres, _sessions, callback_payloads>>

SessInit ==
    /\ sessions = <<>>
    /\ fsm = [u \in Users |-> FsmClear]
    /\ db = InitialPosts
    /\ live = InitialLive
    /\ menus = [u \in Users |-> NoMenus]
    /\ origin = [u \in Users |-> "none"]
    /\ last = Ended("start", "-", "-")
    /\ twice = FALSE
    /\ calls = <<>>
    /\ writes = <<>>

GridIdle == grid = <<>> /\ gres = [op |-> "none", input |-> <<>>, raised |-> FALSE]

\* no draft session, an empty callback_payloads table
DraftIdle == _sessions = <<>> /\ callback_payloads = <<>>

(* cmd_editpost, lines 121-140: the post and the coordinates the argument   *)
(* resolves to, as the set of <<post ids (0 or 1 of them), chat, message>>. *)
\* get_post_row_by_chat_message: the ids of the rows fetchone() may return
RowsByChatMessage(chat_id, message_id) ==
    LET exact == {p \in DOMAIN db :
                    /\ db[p].published_channel = chat_id \/ db[p].published_link = chat_id
                    /\ db[p].published_message_id = <<message_id>>}
        by_message == {p \in DOMAIN db : db[p].published_message_id = <<message_id>>}
    IN IF exact # {} THEN exact ELSE by_message

Resolutions(arg) ==
    IF arg.kind = "id"
    THEN IF arg.id \notin DOMAIN db THEN {<<<<>>, NoneV, <<>>>>}
         ELSE LET post == db[arg.id]
                  chat0 == IF Truthy(post.published_channel) THEN post.published_channel
                           ELSE post.published_link
                  mid0 == post.published_message_id
                  parsed == parse_post_link(post.published_link)
              IN IF Truthy(post.published_link) /\ (~Truthy(chat0) \/ mid0 = <<>> \/ mid0 = <<0>>)
                    /\ parsed[1] # NoneV
                 THEN {<<<<arg.id>>, parsed[1], parsed[2]>>}
                 ELSE {<<<<arg.id>>, chat0, mid0>>}
    ELSE LET parsed == parse_post_link(arg.link)
         IN IF parsed[1] = NoneV THEN {<<<<>>, NoneV, <<>>>>}
            ELSE LET rows == RowsByChatMessage(parsed[1], parsed[2][1])
                 IN IF rows = {} THEN {<<<<>>, parsed[1], parsed[2]>>}
                    ELSE {<<<<p>>, parsed[1], parsed[2]>> : p \in rows}

\* post_service.py get_post_row_by_id: d["keyboard"] = json.loads(d.get("keyboard_json") or "[]"),
\* [] when it does not parse; a row that is kept with its grid parsed has it as "keyboard"
RowKeyboard(row) ==
    IF "keyboard" \in DOMAIN row THEN row.keyboard
    ELSE IF json_loads(row.keyboard_json) = <<>> THEN <<>>
    ELSE json_loads(row.keyboard_json)[1]

\* lines 164-177: the session a successful /editpost stores
NewSession(post, chat_id, message_id) ==
    LET kb_orig == IF post # <<>> THEN RowKeyboard(db[post[1]]) ELSE <<>>
        text_orig == IF post # <<>> THEN db[post[1]].text ELSE NoneV
        photo_orig == IF post # <<>> THEN db[post[1]].photo_file_id ELSE NoneV
    IN [post_id |-> post, chat_id |-> chat_id, message_id |-> message_id,
        orig_text |-> text_orig, orig_photo_file_id |-> photo_orig, orig_keyboard |-> kb_orig,
        text |-> text_orig, photo_file_id |-> photo_orig, keyboard |-> kb_orig,
        awaiting |-> NoneV, keyboard_staged |-> FALSE, move_source |-> <<>>]

\* the callback data _main_edit_menu puts on its buttons: post_id_str, chat_id, message_id
MenuData(post, chat_id, message_id) == <<post, chat_id, message_id>>

cmd_editpost(u, arg) ==
    /\ UNCHANGED <<fsm, db, live>>
    /\ IF arg.kind = "none"
       THEN /\ Log("cmd_editpost", "usage", "refused", <<>>, <<>>)
            /\ UNCHANGED <<sessions, menus, origin>>
       ELSE \E r \in Resolutions(arg) :
              IF ~Truthy(r[2]) \/ r[3] = <<>> \/ r[3] = <<0>>
              THEN /\ Log("cmd_editpost", "unresolved", "refused", <<>>, <<>>)
                   /\ UNCHANGED <<sessions, menus, origin>>
              ELSE \E status \in MemberStatuses :
                     IF status \notin {"administrator", "creator"}
                     THEN /\ Log("cmd_editpost", "no_rights", "refused", <<>>, <<>>)
                          /\ UNCHANGED <<sessions, menus, origin>>
                     ELSE /\ sessions' = PutSession(u, NewSession(r[1], r[2], r[3][1]))
                          /\ menus' = [menus EXCEPT
                                         ![u].main = @ \cup {MenuData(r[1], r[2], r[3][1])}]
                          /\ origin' = [origin EXCEPT ![u] = "cmd_editpost"]
                          /\ Log("cmd_editpost", "open", "done", <<>>, <<>>)

----------------------------------------------------------------------------
(* The transport, as the handlers see it.  A call is accepted only on a    *)
(* message that exists, and edit_message_text only on a message without    *)
(* media; any call may be refused (TelegramBadRequest) or end in a fault.  *)

ZWSP == "<zwsp>"

Possible(lv, op, key, o) ==
    o = "ok" => /\ key \in DOMAIN lv
                /\ op = "edit_message_text" => lv[key].photo = NoneV

Call(op, key, o, kb) == [op |-> op, key |-> key, res |-> o, kb |-> kb]

(* build_inline_markup is a coroutine function (services/keyboard.py:16)   *)
(* and the edit session calls it without await: for a non-empty grid the   *)
(* reply_markup handed to the client is a coroutine object, never a        *)
(* markup, and the builder's body does not run.  The client cannot send    *)
(* such a value: the call ends in a fault that is no TelegramBadRequest.   *)
(* An empty grid gives reply_markup=None, which the transport can accept.  *)
PushMarkupOutcomes(kb) == IF kb = <<>> THEN Outcomes ELSE {"fault"}

\* edit_message_text, and edit_message_caption when that is refused (lines 291-294, 390-393)
TextEdit(lv, key, text, o1, o2) ==
    LET c1 == Call("edit_message_text", key, o1, <<>>)
        c2 == Call("edit_message_caption", key, o2, <<>>)
    IN IF o1 = "ok"
       THEN [res |-> "ok", calls |-> <<c1>>,
             live |-> [lv EXCEPT ![key].text = IF text = "" THEN ZWSP ELSE text]]
       ELSE IF o1 = "fault" THEN [res |-> "fault", calls |-> <<c1>>, live |-> lv]
       ELSE IF o2 = "ok"
       THEN [res |-> "ok", calls |-> <<c1, c2>>, live |-> [lv EXCEPT ![key].text = text]]
       ELSE [res |-> o2, calls |-> <<c1, c2>>, live |-> lv]

TextEditPossible(lv, key, o1, o2) ==
    /\ Possible(lv, "edit_message_text", key, o1)
    /\ IF o1 = "bad_request" THEN Possible(lv, "edit_message_caption", key, o2) ELSE o2 = "ok"

\* if post_id: (an id of 0 is falsy)
HasPostId(s) == s.post_id # <<>> /\ s.post_id # <<0>>

\* an update that writes another value the second time: what ApplyTwiceSameContent must notice
UpdatePostToggling(rows, post_id, field, value, at) ==
    IF post_id \in DOMAIN rows
    THEN [rows EXCEPT ![post_id] =
            [f \in DOMAIN @ |-> IF f = field THEN (IF @[f] = value THEN NoneV ELSE value)
                                ELSE IF f = "updated_at" THEN at
                                ELSE @[f]]]
    ELSE rows
\* a write of the whole row, every other content column at its default: what
\* ConcurrentAppliesKeepBoth must notice
UpdatePostReplacing(rows, post_id, field, value, at) ==
    IF post_id \in DOMAIN rows
    THEN [rows EXCEPT ![post_id] =
            [f \in DOMAIN @ |-> IF f = field THEN value
                                ELSE IF f = "updated_at" THEN at
                                ELSE IF f = "keyboard" THEN <<>>
                                ELSE IF f \in {"text", "photo_file_id"} THEN NoneV
                                ELSE @[f]]]
    ELSE rows
(* UPDATE posts SET <field> = ?, updated_at = datetime('now') WHERE id = ?  *)
(* (services/post_service.py:44-52); at is the clock's reading.            *)
UpdatePost(rows, post_id, field, value, at) ==
    IF post_id \in DOMAIN rows
    THEN [rows EXCEPT ![post_id] = [f \in DOMAIN @ |-> IF f = field THEN value
                                                      ELSE IF f = "updated_at" THEN at
                                                      ELSE @[f]]]
    ELSE rows

\* the readings the clock can give when a row is written: time does not run backwards
Stamps(rows, s) ==
    IF s.post_id # <<>> /\ s.post_id[1] \in DOMAIN rows
    THEN {at \in 0..MaxStamp : at >= rows[s.post_id[1]].updated_at}
    ELSE {0}

\* no snapshot taken: what PerFieldApply must notice
SnapshotSkipped(s, orig, field) == s
\* sess["orig_<field>"] = sess.get("<field>")  (lines 305, 334, 357)
Snapshot(s, orig, field) == [s EXCEPT ![orig] = s[field]]

Write(post_id, field) == [post |-> post_id, field |-> field]

\* lines 209-217: the session the handler works on; it makes one when the user has none
StubSession(m) ==
    [post_id |-> m[1], chat_id |-> m[2], message_id |-> m[3],
     orig_text |-> NoneV, orig_photo_file_id |-> NoneV, orig_keyboard |-> <<>>,
     text |-> NoneV, photo_file_id |-> NoneV, keyboard |-> <<>>,
     awaiting |-> NoneV, keyboard_staged |-> FALSE, move_source |-> <<>>]

SessionOrStub(u, m) == IF HasSession(u) THEN sessions[u] ELSE StubSession(m)

OriginOrStub(u) == IF HasSession(u) THEN origin ELSE [origin EXCEPT ![u] = "cb_editpost_main"]

\* lines 190-198
editpost_cancel(u) ==
    /\ menus[u].main # {}
    /\ sessions' = PopSession(u)
    /\ origin' = [origin EXCEPT ![u] = "none"]
    /\ Log("cb_editpost_main", "cancel", "done", <<>>, <<>>)
    /\ UNCHANGED <<fsm, db, live, menus>>

\* lines 221-247: action is "text" or "photo"
editpost_await(u, m, action) ==
    /\ sessions' = PutSession(u, [SessionOrStub(u, m) EXCEPT !.awaiting = action])
    /\ origin' = OriginOrStub(u)
    /\ Log("cb_editpost_main", action, "done", <<>>, <<>>)
    /\ UNCHANGED <<fsm, db, live, menus>>

\* a menu step that edits the live message: what NoRemoteMutationBeforeApply must notice
editpost_keyboard_pushing(u, m) ==
    /\ sessions' = PutSession(u, SessionOrStub(u, m))
    /\ origin' = OriginOrStub(u)
    /\ menus' = [menus EXCEPT ![u].kb = TRUE]
    /\ live' = [k \in DOMAIN live |-> [live[k] EXCEPT !.keyboard = SessionOrStub(u, m).keyboard]]
    /\ Log("cb_editpost_main", "keyboard", "done", <<>>, <<>>)
    /\ UNCHANGED <<fsm, db>>
\* lines 249-256: the keyboard editor menu is shown
editpost_keyboard(u, m) ==
    /\ sessions' = PutSession(u, SessionOrStub(u, m))
    /\ origin' = OriginOrStub(u)
    /\ menus' = [menus EXCEPT ![u].kb = TRUE]
    /\ Log("cb_editpost_main", "keyboard", "done", <<>>, <<>>)
    /\ UNCHANGED <<fsm, db, live>>

(* lines 258-281: the staged grid is validated (its URLs normalized in     *)
(* place) and the preview goes to the operator's own chat.                 *)
editpost_preview(u, m) ==
    LET s == SessionOrStub(u, m)
        v == validate_keyboard_structure(s.keyboard)
        s1 == IF s.keyboard # <<>> THEN [s EXCEPT !.keyboard = v[3]] ELSE s
    IN /\ sessions' = PutSession(u, s1)
       /\ origin' = OriginOrStub(u)
       /\ Log("cb_editpost_main", "preview",
              IF s.keyboard # <<>> /\ ~v[1] THEN "refused" ELSE "done", <<>>, <<>>)
       /\ UNCHANGED <<fsm, db, live, menus>>

\* lines 284-311
apply_text(u, m, o1, o2) ==
    LET s == SessionOrStub(u, m)
        key == <<m[2], m[3]>>
        t == TextEdit(live, key, s.text, o1, o2)
    IN /\ origin' = OriginOrStub(u)
       /\ UNCHANGED <<fsm, menus>>
       /\ IF s.text = NoneV
          THEN /\ sessions' = PutSession(u, s)
               /\ Log("cb_editpost_main", "apply_text", "refused", <<>>, <<>>)
               /\ o1 = "ok" /\ o2 = "ok"
               /\ UNCHANGED <<db, live>>
          ELSE /\ TextEditPossible(live, key, o1, o2)
               /\ live' = t.live
               /\ IF t.res = "ok"
                  THEN /\ \E at \in Stamps(db, s) :
                            db' = IF HasPostId(s)
                                  THEN UpdatePost(db, s.post_id[1], "text", s.text, at)
                                  ELSE db
                       /\ sessions' = PutSession(u, Snapshot(s, "orig_text", "text"))
                       /\ Log("cb_editpost_main", "apply_text", "ok", t.calls,
                              IF HasPostId(s) THEN <<Write(s.post_id[1], "text")>> ELSE <<>>)
                  ELSE /\ db' = db
                       /\ sessions' = PutSession(u, s)
                       /\ Log("cb_editpost_main", "apply_text",
                              IF t.res = "fault" THEN "raised" ELSE "rejected", t.calls, <<>>)

\* lines 314-340
apply_photo(u, m, o) ==
    LET s == SessionOrStub(u, m)
        key == <<m[2], m[3]>>
        caption_text == IF s.text # NoneV THEN s.text
                        ELSE IF Truthy(s.orig_text) THEN s.orig_text ELSE ""
        c == Call("edit_message_media", key, o, <<>>)
    IN /\ origin' = OriginOrStub(u)
       /\ UNCHANGED <<fsm, menus>>
       /\ IF s.photo_file_id = NoneV
          THEN /\ sessions' = PutSession(u, s)
               /\ Log("cb_editpost_main", "apply_photo", "refused", <<>>, <<>>)
               /\ o = "ok"
               /\ UNCHANGED <<db, live>>
          ELSE /\ Possible(live, "edit_message_media", key, o)
               /\ IF o = "ok"
                  THEN /\ live' = [live EXCEPT ![key].photo = s.photo_file_id,
                                               ![key].text = IF caption_text # "" THEN caption_text
                                                             ELSE NoneV]
                       /\ \E at \in Stamps(db, s) :
                            db' = IF HasPostId(s)
                                  THEN UpdatePost(db, s.post_id[1], "photo_file_id",
                                                  s.photo_file_id, at)
                                  ELSE db
                       /\ sessions' = PutSession(u, Snapshot(s, "orig_photo_file_id", "photo_file_id"))
                       /\ Log("cb_editpost_main", "apply_photo", "ok", <<c>>,
                              IF HasPostId(s) THEN <<Write(s.post_id[1], "photo_file_id")>> ELSE <<>>)
                  ELSE /\ UNCHANGED <<db, live>>
                       /\ sessions' = PutSession(u, s)
                       /\ Log("cb_editpost_main", "apply_photo",
                              IF o = "fault" THEN "raised" ELSE "rejected", <<c>>, <<>>)

\* lines 343-364
apply_keyboard(u, m, o) ==
    LET s == SessionOrStub(u, m)
        key == <<m[2], m[3]>>
        kb == s.keyboard
        c == Call("edit_message_reply_markup", key, o, kb)
    IN /\ origin' = OriginOrStub(u)
       /\ UNCHANGED <<fsm, menus>>
       /\ o \in PushMarkupOutcomes(kb)
       /\ Possible(live, "edit_message_reply_markup", key, o)
       /\ IF o = "ok"
          THEN /\ live' = [live EXCEPT ![key].keyboard = kb]
               /\ \E at \in Stamps(db, s) :
                    db' = IF HasPostId(s) THEN UpdatePost(db, s.post_id[1], "keyboard", kb, at)
                          ELSE db
               /\ sessions' = PutSession(u, [Snapshot(s, "orig_keyboard", "keyboard")
                                                EXCEPT !.keyboard_staged = FALSE])
               /\ Log("cb_editpost_main", "apply_keyboard", "ok", <<c>>,
                      IF HasPostId(s) THEN <<Write(s.post_id[1], "keyboard")>> ELSE <<>>)
          ELSE /\ UNCHANGED <<db, live>>
               /\ sessions' = PutSession(u, s)
               /\ Log("cb_editpost_main", "apply_keyboard",
                      IF o = "fault" THEN "raised" ELSE "rejected", <<c>>, <<>>)

\* a failure that stops nothing: what ApplyAllOrderAndAbort must notice
StepFailedIgnored(called, res) == FALSE
\* a step of apply_all that made its call and did not get it accepted: the handler returns
StepFailed(called, res) == called /\ res # "ok"

(* apply_all, lines 367-429: media, then text, then keyboard.  om, o1, o2  *)
(* and ok are the transport's answers to the media call, the text call,    *)
(* the caption call and the keyboard call, for the calls that are made.    *)
ApplyAllRun(lv, s, key, om, o1, o2, ok) ==
    LET kb == s.keyboard
        text == s.text
        photo == s.photo_file_id
        media_changed == s.orig_photo_file_id # photo
        text_changed == s.orig_text # text
        cm == Call("edit_message_media", key, om, <<>>)
        \* 1) the media step; caption=None drops the caption
        lv1 == IF media_changed /\ om = "ok"
               THEN [lv EXCEPT ![key].photo = photo, ![key].text = NoneV] ELSE lv
        calls1 == IF media_changed /\ Truthy(photo) THEN <<cm>> ELSE <<>>
        \* 2) the text step
        t == TextEdit(lv1, key, text, o1, o2)
        text_called == text_changed /\ text # NoneV
        lv2 == IF text_called THEN t.live ELSE lv1
        calls2 == IF text_called THEN calls1 \o t.calls ELSE calls1
        \* 3) the keyboard step
        ck == Call("edit_message_reply_markup", key, ok, kb)
        lv3 == IF ok = "ok" THEN [lv2 EXCEPT ![key].keyboard = kb] ELSE lv2
    IN IF media_changed /\ ~Truthy(photo)
       THEN [res |-> "refused", step |-> "media", live |-> lv, calls |-> <<>>]
       ELSE IF StepFailed(media_changed, om)
       THEN [res |-> "rejected", step |-> "media", live |-> lv, calls |-> calls1]
       ELSE IF StepFailed(text_called, t.res)
       THEN [res |-> "rejected", step |-> "text", live |-> lv2, calls |-> calls2]
       ELSE IF StepFailed(TRUE, ok)
       THEN [res |-> "rejected", step |-> "keyboard", live |-> lv2, calls |-> Append(calls2, ck)]
       ELSE [res |-> "ok", step |-> "done", live |-> lv3, calls |-> Append(calls2, ck)]

\* the answers the transport can give, and "ok" for the calls that are not made
ApplyAllPossible(lv, s, key, om, o1, o2, ok) ==
    LET media_changed == s.orig_photo_file_id # s.photo_file_id
        media_called == media_changed /\ Truthy(s.photo_file_id)
        lv1 == IF media_called /\ om = "ok"
               THEN [lv EXCEPT ![key].photo = s.photo_file_id, ![key].text = NoneV] ELSE lv
        text_called == /\ ~(media_changed /\ (om # "ok" \/ ~Truthy(s.photo_file_id)))
                       /\ s.orig_text # s.text /\ s.text # NoneV
        t == TextEdit(lv1, key, s.text, o1, o2)
        kb_called == /\ ~(media_changed /\ (om # "ok" \/ ~Truthy(s.photo_file_id)))
                     /\ ~(text_called /\ t.res # "ok")
    IN /\ IF media_called THEN Possible(lv, "edit_message_media", key, om) ELSE om = "ok"
       /\ IF text_called THEN TextEditPossible(lv1, key, o1, o2) ELSE o1 = "ok" /\ o2 = "ok"
       /\ IF kb_called
          THEN /\ ok \in PushMarkupOutcomes(s.keyboard)
               /\ Possible(lv1, "edit_message_reply_markup", key, ok)
          ELSE ok = "ok"

\* lines 404-414: the rows written after the three steps succeeded
ApplyAllDb(rows, s, at) ==
    LET p == s.post_id[1]
        r1 == IF s.orig_text # s.text THEN UpdatePost(rows, p, "text", s.text, at) ELSE rows
        r2 == IF s.orig_photo_file_id # s.photo_file_id /\ Truthy(s.photo_file_id)
              THEN UpdatePost(r1, p, "photo_file_id", s.photo_file_id, at) ELSE r1
    IN UpdatePost(r2, p, "keyboard", s.keyboard, at)

ApplyAllWrites(s) ==
    LET p == s.post_id[1] IN
    (IF s.orig_text # s.text THEN <<Write(p, "text")>> ELSE <<>>)
    \o (IF s.orig_photo_file_id # s.photo_file_id /\ Truthy(s.photo_file_id)
        THEN <<Write(p, "photo_file_id")>> ELSE <<>>)
    \o <<Write(p, "keyboard")>>

apply_all(u, m, om, o1, o2, ok) ==
    LET s == SessionOrStub(u, m)
        key == <<m[2], m[3]>>
        run == ApplyAllRun(live, s, key, om, o1, o2, ok)
    IN /\ ApplyAllPossible(live, s, key, om, o1, o2, ok)
       /\ UNCHANGED <<fsm, menus>>
       /\ live' = run.live
       /\ IF run.res = "ok"
          THEN /\ \E at \in Stamps(db, s) :
                    db' = IF HasPostId(s) THEN ApplyAllDb(db, s, at) ELSE db
               /\ sessions' = PopSession(u)
               /\ origin' = [origin EXCEPT ![u] = "none"]
               /\ Log("cb_editpost_main", "apply_all", "ok", run.calls,
                      IF HasPostId(s) THEN ApplyAllWrites(s) ELSE <<>>)
          ELSE /\ db' = db
               /\ sessions' = PutSession(u, s)
               /\ origin' = OriginOrStub(u)
               /\ Log("cb_editpost_main", "apply_all", run.res, run.calls, <<>>)

\* the callback data of a pressed main-menu button comes from a menu the bot sent
cb_editpost_main(u) ==
    \/ editpost_cancel(u)
    \/ \E m \in menus[u].main, action \in {"text", "photo"} :
         scope = "fields" /\ editpost_await(u, m, action)
    \/ \E m \in menus[u].main : editpost_keyboard(u, m)
    \/ \E m \in menus[u].main : editpost_preview(u, m)
    \/ \E m \in menus[u].main, o1, o2 \in Outcomes :
         scope = "fields" /\ apply_text(u, m, o1, o2)
    \/ \E m \in menus[u].main, o \in Outcomes :
         scope = "fields" /\ apply_photo(u, m, o)
    \/ \E m \in menus[u].main, o \in Outcomes : apply_keyboard(u, m, o)
    \/ \E m \in menus[u].main, om, o1, o2, ok \in Outcomes : apply_all(u, m, om, o1, o2, ok)

----------------------------------------------------------------------------
(* The keyboard editor: cb_kbeditor_actions and the KBStates handlers.     *)

\* a staged grid within the bounds of the model
Fits(kb) == Len(kb) <= MaxSessRows /\ ButtonCount(kb) <= MaxSessButtons

\* what the operator types: an integer or something else (<<>>)
IntInputs == {<<>>} \cup {<<n>> : n \in -1..MaxSessCoord}
\* "row col", or something else (<<>>)
CoordInputs == {<<>>} \cup {<<r, c>> : r \in -1..MaxSessCoord, c \in 0..MaxSessCoord}
\* a message of no lines (no text), or a first line and a second line ("" when there is none)
ButtonInputs ==
    {[lines |-> 0, text |-> "", second |-> ""],
     [lines |-> 1, text |-> "A", second |-> ""],
     [lines |-> 2, text |-> "A", second |-> "tok"]}

\* second.startswith(("http://", "https://", "tg://", "mailto:")), on the inputs of the model
UrlPrefixed(second) == second \in {"https://example.com", "http://t.me/chan/5", "https://t.me/chan/5"}

SetFsm(u, state) == [fsm EXCEPT ![u].state = state]

\* lines 433-515; the callback data comes from the editor menu, once it was shown
cb_kbeditor_actions(u, action) ==
    /\ menus[u].kb
    /\ UNCHANGED <<db, live, menus, origin>>
    /\ IF ~HasSession(u)
       THEN /\ Log("cb_kbeditor_actions", action, "no_session", <<>>, <<>>)
            /\ UNCHANGED <<sessions, fsm>>
       ELSE LET s == sessions[u] IN
            CASE action = "add_row" ->
                   /\ Fits(add_row(s.keyboard).kb)
                   /\ sessions' = PutSession(u, [s EXCEPT !.keyboard = add_row(s.keyboard).kb])
                   /\ fsm' = fsm
                   /\ Log("cb_kbeditor_actions", action, "done", <<>>, <<>>)
              [] action \in {"add_button", "format"} ->
                   /\ fsm' = SetFsm(u, IF action = "add_button" THEN "waiting_row_index_for_add"
                                       ELSE "waiting_format_cols")
                   /\ sessions' = sessions
                   /\ Log("cb_kbeditor_actions", action, "done", <<>>, <<>>)
              [] action \in {"del_button", "edit_button", "move_button"} ->
                   /\ fsm' = IF s.keyboard = <<>> THEN fsm
                             ELSE SetFsm(u, CASE action = "del_button" -> "waiting_delete_coords"
                                              [] action = "edit_button" -> "waiting_edit_coords"
                                              [] OTHER -> "waiting_move_source")
                   /\ sessions' = sessions
                   /\ Log("cb_kbeditor_actions", action,
                          IF s.keyboard = <<>> THEN "refused" ELSE "done", <<>>, <<>>)
              [] action = "preview" ->
                   \* validation normalizes the URLs in place; the preview goes to the operator
                   /\ sessions' = PutSession(u, [s EXCEPT !.keyboard =
                                                   validate_keyboard_structure(s.keyboard)[3]])
                   /\ fsm' = fsm
                   /\ Log("cb_kbeditor_actions", action,
                          IF validate_keyboard_structure(s.keyboard)[1] THEN "done" ELSE "refused",
                          <<>>, <<>>)
              [] action = "stage" ->
                   /\ sessions' = PutSession(u, [s EXCEPT !.keyboard_staged = TRUE])
                   /\ fsm' = fsm
                   /\ Log("cb_kbeditor_actions", action, "done", <<>>, <<>>)
              [] OTHER ->   \* "apply" (disabled) and "back"
                   /\ UNCHANGED <<sessions, fsm>>
                   /\ Log("cb_kbeditor_actions", action, "done", <<>>, <<>>)

KbEditorActions ==
    CASE scope = "fields" -> {"del_button", "preview", "stage", "back"}
      [] scope = "add" -> {"add_row", "add_button", "preview"}
      [] scope = "edit" -> {"add_button", "edit_button"}
      [] scope = "move" -> {"add_button", "move_button"}
      [] scope = "format" -> {"add_button", "format"}

\* the first lines of every KBStates handler: without a session the state is cleared
NoSessionReply(u, h) ==
    /\ fsm' = [fsm EXCEPT ![u] = FsmClear]
    /\ sessions' = sessions
    /\ Log(h, "-", "no_session", <<>>, <<>>)

\* the handler replied and returned: nothing changes
Retry(h) ==
    /\ UNCHANGED <<sessions, fsm>>
    /\ Log(h, "-", "retry", <<>>, <<>>)

\* lines 518-535
kb_row_index_received(u, idx) ==
    /\ fsm[u].state = "waiting_row_index_for_add"
    /\ UNCHANGED <<db, live, menus, origin>>
    /\ IF ~HasSession(u) THEN NoSessionReply(u, "kb_row_index_received")
       ELSE IF idx = <<>> THEN Retry("kb_row_index_received")
       ELSE /\ fsm' = [fsm EXCEPT ![u].state = "waiting_button_text_url",
                                  ![u].kb_add_target = <<IF idx[1] = -1 THEN <<>> ELSE idx>>]
            /\ sessions' = sessions
            /\ Log("kb_row_index_received", "-", "done", <<>>, <<>>)

\* lines 552-559: the button the two lines describe
ParsedButton(b) ==
    [text |-> b.text,
     url |-> IF UrlPrefixed(b.second) THEN b.second ELSE NoneV,
     callback_data |-> IF UrlPrefixed(b.second) \/ b.second = "" THEN NoneV ELSE b.second]

\* lines 537-562
kb_button_data_received(u, b) ==
    /\ fsm[u].state = "waiting_button_text_url"
    /\ UNCHANGED <<db, live, menus, origin>>
    /\ IF ~HasSession(u) THEN NoSessionReply(u, "kb_button_data_received")
       ELSE IF b.lines = 0 THEN Retry("kb_button_data_received")
       ELSE LET s == sessions[u]
                row_index == IF fsm[u].kb_add_target = <<>> THEN <<>> ELSE fsm[u].kb_add_target[1]
                pb == ParsedButton(b)
                r == add_button_to_row(s.keyboard, row_index, pb.text, pb.callback_data, pb.url)
            IN /\ Fits(r.kb)
               /\ sessions' = PutSession(u, [s EXCEPT !.keyboard = r.kb])
               /\ fsm' = [fsm EXCEPT ![u] = FsmClear]
               /\ Log("kb_button_data_received", "-", "done", <<>>, <<>>)

\* lines 564-583
kb_delete_coords(u, rc) ==
    /\ fsm[u].state = "waiting_delete_coords"
    /\ UNCHANGED <<db, live, menus, origin>>
    /\ IF ~HasSession(u) THEN NoSessionReply(u, "kb_delete_coords")
       ELSE IF rc = <<>> THEN Retry("kb_delete_coords")
       ELSE LET s == sessions[u] IN
            /\ sessions' = PutSession(u, [s EXCEPT !.keyboard =
                                            delete_button(s.keyboard, rc[1], rc[2]).kb])
            /\ fsm' = [fsm EXCEPT ![u] = FsmClear]
            /\ Log("kb_delete_coords", "-", "done", <<>>, <<>>)

InRange(kb, r, c) == 0 <= r /\ r < Len(kb) /\ 0 <= c /\ c < Len(kb[r + 1])

\* lines 585-608
kb_edit_coords(u, rc) ==
    /\ fsm[u].state = "waiting_edit_coords"
    /\ UNCHANGED <<db, live, menus, origin>>
    /\ IF ~HasSession(u) THEN NoSessionReply(u, "kb_edit_coords")
       ELSE IF rc = <<>> THEN Retry("kb_edit_coords")
       ELSE IF ~InRange(sessions[u].keyboard, rc[1], rc[2])
       THEN /\ fsm' = [fsm EXCEPT ![u] = FsmClear]
            /\ sessions' = sessions
            /\ Log("kb_edit_coords", "-", "out_of_range", <<>>, <<>>)
       ELSE /\ fsm' = [fsm EXCEPT ![u].state = "waiting_new_button_text_url",
                                  ![u].kb_edit_target = rc]
            /\ sessions' = sessions
            /\ Log("kb_edit_coords", "-", "done", <<>>, <<>>)

(* lines 610-639.  The cell write sess["keyboard"][r][c] = ... raises when  *)
(* the recorded target is no cell of the grid: the handler ends there, the  *)
(* session and the state as they were.                                      *)
kb_new_button_data(u, b) ==
    /\ fsm[u].state = "waiting_new_button_text_url"
    /\ UNCHANGED <<db, live, menus, origin>>
    /\ IF ~HasSession(u) THEN NoSessionReply(u, "kb_new_button_data")
       ELSE IF b.lines = 0 THEN Retry("kb_new_button_data")
       ELSE LET s == sessions[u]
                t == fsm[u].kb_edit_target
                pb == ParsedButton(b)
                btn == MkButton(pb.text, pb.callback_data, pb.url)
            IN IF t = <<>> \/ ~InRange(s.keyboard, t[1], t[2])
               THEN /\ UNCHANGED <<sessions, fsm>>
                    /\ Log("kb_new_button_data", "-", "raised", <<>>, <<>>)
               ELSE /\ sessions' = PutSession(u,
                          [s EXCEPT !.keyboard[t[1] + 1][t[2] + 1] = btn])
                    /\ fsm' = [fsm EXCEPT ![u] = FsmClear]
                    /\ Log("kb_new_button_data", "-", "done", <<>>, <<>>)

\* lines 641-660
kb_move_source(u, rc) ==
    /\ fsm[u].state = "waiting_move_source"
    /\ UNCHANGED <<db, live, menus, origin>>
    /\ IF ~HasSession(u) THEN NoSessionReply(u, "kb_move_source")
       ELSE IF rc = <<>> THEN Retry("kb_move_source")
       ELSE /\ sessions' = PutSession(u, [sessions[u] EXCEPT !.move_source = rc])
            /\ fsm' = SetFsm(u, "waiting_move_target")
            /\ Log("kb_move_source", "-", "done", <<>>, <<>>)

(* lines 662-687.  When move_button raises, the staged list has already     *)
(* been changed in place; move_source and the state stay.                   *)
kb_move_target(u, rc) ==
    /\ fsm[u].state = "waiting_move_target"
    /\ UNCHANGED <<db, live, menus, origin>>
    /\ IF ~HasSession(u) THEN NoSessionReply(u, "kb_move_target")
       ELSE IF rc = <<>> THEN Retry("kb_move_target")
       ELSE LET s == sessions[u]
                src == s.move_source
                r == move_button(s.keyboard, src[1], src[2], rc[1], rc[2])
            IN IF src = <<>>
               THEN /\ fsm' = [fsm EXCEPT ![u] = FsmClear]
                    /\ sessions' = sessions
                    /\ Log("kb_move_target", "-", "no_source", <<>>, <<>>)
               ELSE /\ Fits(r.kb)
                    /\ IF r.raised
                       THEN /\ sessions' = PutSession(u, [s EXCEPT !.keyboard = r.kb])
                            /\ fsm' = fsm
                            /\ Log("kb_move_target", "-", "raised", <<>>, <<>>)
                       ELSE /\ sessions' = PutSession(u, [s EXCEPT !.keyboard = r.kb,
                                                                  !.move_source = <<>>])
                            /\ fsm' = [fsm EXCEPT ![u] = FsmClear]
                            /\ Log("kb_move_target", "-", "done", <<>>, <<>>)

\* lines 689-707
kb_format_cols(u, n) ==
    /\ fsm[u].state = "waiting_format_cols"
    /\ UNCHANGED <<db, live, menus, origin>>
    /\ IF ~HasSession(u) THEN NoSessionReply(u, "kb_format_cols")
       ELSE IF n = <<>> \/ n[1] <= 0 THEN Retry("kb_format_cols")
       ELSE /\ sessions' = PutSession(u, [sessions[u] EXCEPT !.keyboard =
                                            reformat_columns(@, n[1]).kb])
            /\ fsm' = [fsm EXCEPT ![u] = FsmClear]
            /\ Log("kb_format_cols", "-", "done", <<>>, <<>>)

\* what the operator sends while a field is awaited: a text, a photo, something else
FieldInputs ==
    {[text |-> "t1", file_id |-> NoneV],
     [text |-> NoneV, file_id |-> "p1"],
     [text |-> NoneV, file_id |-> NoneV]}

(* catch_edit_responses, lines 710-751.  The router tries the KBStates      *)
(* handlers first, so the message gets here only when no such state is set. *)
catch_edit_responses(u, msg) ==
    /\ HasSession(u)
    /\ fsm[u].state = NoneV
    /\ UNCHANGED <<fsm, db, live, menus, origin>>
    /\ LET s == sessions[u] IN
       IF s.awaiting = NoneV
       THEN /\ sessions' = sessions
            /\ Log("catch_edit_responses", "-", "ignored", <<>>, <<>>)
       ELSE IF s.awaiting = "text"
       THEN IF ~Truthy(msg.text)
            THEN /\ sessions' = sessions
                 /\ Log("catch_edit_responses", "text", "retry", <<>>, <<>>)
            ELSE /\ sessions' = PutSession(u, [s EXCEPT !.text = msg.text, !.awaiting = NoneV])
                 /\ Log("catch_edit_responses", "text", "done", <<>>, <<>>)
       ELSE IF ~Truthy(msg.file_id)
            THEN /\ sessions' = sessions
                 /\ Log("catch_edit_responses", "photo", "retry", <<>>, <<>>)
            ELSE /\ sessions' = PutSession(u, [s EXCEPT !.photo_file_id = msg.file_id,
                                                        !.awaiting = NoneV])
                 /\ Log("catch_edit_responses", "photo", "done", <<>>, <<>>)

----------------------------------------------------------------------------
(* One operator action at a time: a command, a button press or a message.  *)

Next ==
    \E u \in Users :
         \/ \E arg \in EditpostArgs : cmd_editpost(u, arg)
         \/ cb_editpost_main(u)
         \/ \E action \in KbEditorActions : cb_kbeditor_actions(u, action)
         \/ \E idx \in IntInputs : kb_row_index_received(u, idx)
         \/ \E b \in ButtonInputs : kb_button_data_received(u, b)
         \/ \E rc \in CoordInputs : kb_delete_coords(u, rc)
         \/ \E rc \in CoordInputs : kb_edit_coords(u, rc)
         \/ \E b \in ButtonInputs : kb_new_button_data(u, b)
         \/ \E rc \in CoordInputs : kb_move_source(u, rc)
         \/ \E rc \in CoordInputs : kb_move_target(u, rc)
         \/ \E n \in IntInputs : kb_format_cols(u, n)
         \/ \E msg \in FieldInputs : catch_edit_responses(u, msg)

Init == SessInit /\ scope \in Scopes /\ GridIdle /\ DraftIdle

Spec == Init /\ [][Next]_vars

----------------------------------------------------------------------------
(* The grid engine on its own: the five operations of services/keyboard.py *)
(* applied, with every argument of the bounds, to the grids they build.    *)
(* A call changes the list it is given in place, so the grid after a call  *)
(* that raised is the list as the call left it.                            *)

Coords == (0 - MaxCoord)..MaxCoord

GridTexts == {"a", "b"}

GridFits(kb) == Len(kb) <= MaxRows /\ ButtonCount(kb) <= MaxButtons

Applied(op, r) ==
    /\ GridFits(r.kb)
    /\ grid' = r.kb
    /\ gres' = [op |-> op, input |-> grid, raised |-> r.raised]
    /\ UNCHANGED <<sessVars, draftVars>>

do_add_row == Applied("add_row", add_row(grid))

do_add_button_to_row ==
    \E row_index \in {<<>>} \cup {<<n>> : n \in Coords}, text \in GridTexts :
        Applied("add_button_to_row",
                add_button_to_row(grid, row_index, text, "tok", NoneV))

do_delete_button ==
    \E row_index, col_index \in Coords :
        Applied("delete_button", delete_button(grid, row_index, col_index))

do_move_button ==
    \E from_r, from_c, to_r, to_c \in Coords :
        Applied("move_button", move_button(grid, from_r, from_c, to_r, to_c))

do_reformat_columns ==
    \E cols \in Coords : Applied("reformat_columns", reformat_columns(grid, cols))

NextGrid ==
    \/ do_add_row
    \/ do_add_button_to_row
    \/ do_delete_button
    \/ do_move_button
    \/ do_reformat_columns

InitGrid == SessInit /\ scope = "engine" /\ GridIdle /\ DraftIdle

SpecGrid == InitGrid /\ [][NextGrid]_vars

----------------------------------------------------------------------------
(* One call of a grid operation on each grid of the bounds: the grid is    *)
(* drawn at the start (rows may be empty, buttons carry a token or a URL), *)
(* the call's arguments are recorded with its result.                      *)

\* most rows of a drawn grid, and most buttons of one of its rows
LawRows == 2
LawRowLen == 2

TokA == [text |-> "a", callback_data |-> "tok", url |-> NoneV]
UrlB == [text |-> "b", callback_data |-> NoneV, url |-> "https://example.com"]
LawButtons == {TokA, UrlB}

LawRowSet == UNION {[1..n -> LawButtons] : n \in 0..LawRowLen}
LawGrids == UNION {[1..m -> LawRowSet] : m \in 0..LawRows}

Called(op, args, r) ==
    /\ gres.op = "none"
    /\ grid' = r.kb
    /\ gres' = [op |-> op, input |-> grid, raised |-> r.raised, args |-> args]
    /\ UNCHANGED <<sessVars, draftVars>>

call_add_row == Called("add_row", <<>>, add_row(grid))

call_add_button_to_row ==
    \E row_index \in {<<>>} \cup {<<n>> : n \in Coords}, b \in LawButtons :
        Called("add_button_to_row", <<row_index, b>>,
               add_button_to_row(grid, row_index, b.text, b.callback_data, b.url))

call_delete_button ==
    \E row_index, col_index \in Coords :
        Called("delete_button", <<row_index, col_index>>,
               delete_button(grid, row_index, col_index))

call_reformat_columns ==
    \E cols \in Coords :
        Called("reformat_columns", <<cols>>, reformat_columns(grid, cols))

NextLaw ==
    \/ call_add_row
    \/ call_add_button_to_row
    \/ call_delete_button
    \/ call_reformat_columns

InitLaw ==
    /\ SessInit
    /\ scope = "law"
    /\ grid \in LawGrids
    /\ gres = [op |-> "none", input |-> <<>>, raised |-> FALSE]
    /\ DraftIdle

SpecLaw == InitLaw /\ [][NextLaw]_vars

----------------------------------------------------------------------------
(* One call of move_button on each grid of the bounds, the buttons told    *)
(* apart by their texts; the call's arguments are recorded with its result. *)

\* most rows of a drawn grid, most buttons of one of its rows, most buttons in all
MoveRows == 2
MoveRowLen == 2
MoveMaxButtons == 3
\* the coordinates of a move range over -1 .. MoveCoord
MoveCoord == 2

MoveButtons == {[text |-> t, callback_data |-> "tok", url |-> NoneV] : t \in {"a", "b", "c"}}

MoveRowSet == UNION {[1..n -> MoveButtons] : n \in 0..MoveRowLen}
MoveGrids ==
    {kb \in UNION {[1..m -> MoveRowSet] : m \in 0..MoveRows} :
        ButtonCount(kb) <= MoveMaxButtons}

MoveCoords == -1..MoveCoord

call_move_button ==
    \E from_r, from_c, to_r, to_c \in MoveCoords :
        Called("move_button", <<from_r, from_c, to_r, to_c>>,
               move_button(grid, from_r, from_c, to_r, to_c))

NextMove == call_move_button

InitMove ==
    /\ SessInit
    /\ scope = "move_button"
    /\ grid \in MoveGrids
    /\ gres = [op |-> "none", input |-> <<>>, raised |-> FALSE]
    /\ DraftIdle

SpecMove == InitMove /\ [][NextMove]_vars

----------------------------------------------------------------------------
(* The builder on its own: one build_inline_markup of each grid of the     *)
(* bounds, on an empty table or on one that already holds a row, and then  *)
(* presses of the emitted "kb_payload:<id>" buttons (cb_kb_payload).       *)

\* most rows of a built grid, most buttons of one of its rows, most buttons in all
BuildRowCount == 2
BuildRowLen == 2
BuildMaxButtons == 3

LongTok == [text |-> "l", callback_data |-> "longtok", url |-> NoneV]
Bare == [text |-> "x", callback_data |-> NoneV, url |-> NoneV]
WideBare == [text |-> "wide25", callback_data |-> NoneV, url |-> NoneV]
BuildButtons == {TokA, UrlB, LongTok, Bare, WideBare}

BuildRowSet == UNION {[1..n -> BuildButtons] : n \in 0..BuildRowLen}
RECURSIVE GridsWithin(_, _, _)
\* the grids of at most m rows of rowSet and at most cap buttons, built row by row
GridsWithin(rowSet, m, cap) ==
    IF m = 0 THEN {<<>>}
    ELSE LET shorter == GridsWithin(rowSet, m - 1, cap)
         IN shorter \cup
            {Append(p[1], p[2]) :
                p \in {q \in shorter \X rowSet :
                          /\ Len(q[1]) = m - 1
                          /\ ButtonCount(q[1]) + Len(q[2]) <= cap}}
BuildGrids == GridsWithin(BuildRowSet, BuildRowCount, BuildMaxButtons)

\* the rows the table may hold before the build
InitialPayloads == {<<>>, ("000000000001" :> json_dumps([callback |-> "longtok"]))}

\* a button that takes the store branch of the builder (lines 50-60)
StoresPayload(btn) ==
    /\ ~(Truthy(btn.url) /\ validate_button_url(btn.url)[1])
    /\ Truthy(btn.callback_data)
    /\ ByteLen(btn.callback_data) > MAX_CALLBACK_BYTES

StoreCalls(kb) == Len(SelectSeq(Flatten(kb), StoresPayload))

do_build_inline_markup ==
    /\ gres.op = "none"
    /\ \E ids \in [1..StoreCalls(grid) -> make_short_id] :
          LET r == build_inline_markup(grid, callback_payloads, ids) IN
          /\ callback_payloads' = r.table
          /\ gres' = [op |-> "build_inline_markup", input |-> grid, raised |-> FALSE,
                      args |-> ids, before |-> callback_payloads, markup |-> r.rows,
                      pos |-> 0, original |-> NoneV]
    /\ UNCHANGED <<sessVars, grid, _sessions>>

\* the operator presses the emitted button number pos, a "kb_payload:<id>" button
cb_kb_payload ==
    /\ gres.op = "build_inline_markup"
    /\ \E pos \in DOMAIN Flatten(gres.markup) :
          LET data == Flatten(gres.markup)[pos].callback_data IN
          /\ data \in {"kb_payload:" \o id : id \in make_short_id}
          /\ gres' = [gres EXCEPT !.op = "cb_kb_payload", !.pos = pos,
                                  !.original = ResolvePayload(callback_payloads, data)]
    /\ UNCHANGED <<sessVars, grid, _sessions, callback_payloads>>

NextBuild ==
    \/ do_build_inline_markup
    \/ cb_kb_payload

InitBuild ==
    /\ SessInit
    /\ scope = "build"
    /\ grid \in BuildGrids
    /\ gres = [op |-> "none", input |-> <<>>, raised |-> FALSE]
    /\ _sessions = <<>>
    /\ callback_payloads \in InitialPayloads

SpecBuild == InitBuild /\ [][NextBuild]_vars

----------------------------------------------------------------------------
(* One call of validate_keyboard_structure on each grid of the bounds: the *)
(* buttons are of every kind the validation tells apart.                   *)

\* most rows of a drawn grid, most buttons of one of its rows, most buttons in all
ValRows == 2
ValRowLen == 2
ValMaxButtons == 2

ValButtons ==
    {TokA, UrlB, LongTok, Bare,
     [text |-> NoneV, callback_data |-> "tok", url |-> NoneV],       \* no "text" key
     [text |-> "", callback_data |-> "tok", url |-> NoneV],          \* empty text
     [text |-> "c", callback_data |-> "tok", url |-> "https://example.com"],   \* both kinds
     [text |-> "d", callback_data |-> NoneV, url |-> "ftp://example.com"],     \* invalid URL
     [text |-> "e", callback_data |-> NoneV, url |-> "http://t.me/chan/5"]}

ValRowSet == UNION {[1..n -> ValButtons] : n \in 0..ValRowLen}
ValGrids == GridsWithin(ValRowSet, ValRows, ValMaxButtons)

do_validate_keyboard_structure ==
    /\ gres.op = "none"
    /\ LET v == validate_keyboard_structure(grid) IN
       /\ grid' = v[3]
       /\ gres' = [op |-> "validate_keyboard_structure", input |-> grid, raised |-> FALSE,
                   ok |-> v[1], reason |-> v[2]]
    /\ UNCHANGED <<sessVars, draftVars>>

NextValidate == do_validate_keyboard_structure

InitValidate ==
    /\ SessInit
    /\ scope = "validate"
    /\ grid \in ValGrids
    /\ gres = [op |-> "none", input |-> <<>>, raised |-> FALSE]
    /\ DraftIdle

SpecValidate == InitValidate /\ [][NextValidate]_vars

----------------------------------------------------------------------------
(* The Long-Payload Store on its own: any sequence of store_payload,       *)
(* get_payload and delete_payload.  gres holds the last call with the      *)
(* table before it, and kept: for every id a store returned and no delete  *)
(* has named since, the payload that store was given.                      *)

\* the dicts the callers store (services/keyboard.py:53, handlers/posts_callbacks.py:27-32)
Payloads ==
    {[callback |-> "longtok"], [callback |-> "othertok"],
     [author_id |-> 1, text |-> "t1", meta |-> [source |-> "preview_command"]]}

\* a row whose data is no JSON text
Corrupt == <<"{not json">>

\* the table at the start: empty, or holding a row no store of this run wrote
StartTables == {<<>>, ("000000000001" :> Corrupt)}

StoreCall(op, id, raised, result, kept) ==
    [op |-> op, input |-> id, raised |-> raised, before |-> callback_payloads,
     result |-> result, kept |-> kept]

do_store_payload ==
    /\ \E payload \in Payloads, payload_id \in make_short_id :
          LET r == store_payload(callback_payloads, payload, payload_id) IN
          /\ callback_payloads' = r.table
          /\ gres' = StoreCall("store_payload", payload_id, r.raised, <<>>,
                               IF r.raised THEN gres.kept
                               ELSE [x \in (DOMAIN gres.kept) \cup {payload_id} |->
                                       IF x = payload_id THEN payload ELSE gres.kept[x]])
    /\ UNCHANGED <<sessVars, grid, _sessions>>

do_get_payload ==
    /\ \E payload_id \in make_short_id :
          gres' = StoreCall("get_payload", payload_id, FALSE,
                            get_payload(callback_payloads, payload_id), gres.kept)
    /\ UNCHANGED <<sessVars, grid, _sessions, callback_payloads>>

do_delete_payload ==
    /\ \E payload_id \in make_short_id :
          /\ callback_payloads' = delete_payload(callback_payloads, payload_id)
          /\ gres' = StoreCall("delete_payload", payload_id, FALSE, <<>>,
                               [x \in (DOMAIN gres.kept) \ {payload_id} |-> gres.kept[x]])
    /\ UNCHANGED <<sessVars, grid, _sessions>>

NextStore ==
    \/ do_store_payload
    \/ do_get_payload
    \/ do_delete_payload

InitStore ==
    /\ SessInit
    /\ scope = "store"
    /\ grid = <<>>
    /\ _sessions = <<>>
    /\ callback_payloads \in StartTables
    /\ gres = [op |-> "none", input |-> NoneV, raised |-> FALSE, before |-> callback_payloads,
               result |-> <<>>, kept |-> <<>>]

SpecStore == InitStore /\ [][NextStore]_vars

----------------------------------------------------------------------------
(* utils.py: validate_button_url on URLs of any shape.  A URL is the text  *)
(* of its parts: white space, a scheme followed by "://" (or none), the     *)
(* authority up to the next "/" (user info, host, port) and the path, a     *)
(* sequence of segments each preceded by "/".                               *)

UrlSchemes == {"", "http", "https", "HTTPS", "ftp"}
UrlHosts == {"", "t.me", "T.ME", "example.com", "[bad"}
UrlPaths == {<<>>, <<"chan">>, <<"chan", "5">>, <<"chan", "x">>, <<"chan", "5", "">>}

UrlInputs ==
    {p \in [lead : {"", " "}, scheme : UrlSchemes, userinfo : {"", "u@"}, host : UrlHosts,
            port : {"", ":80"}, path : UrlPaths, trail : {"", " "}] :
        \* without "://" the text has no authority
        p.scheme = "" => p.userinfo = "" /\ p.host = "" /\ p.port = ""}

RECURSIVE PathText(_)
PathText(path) == IF path = <<>> THEN "" ELSE "/" \o Head(path) \o PathText(Tail(path))

\* the string the parts spell
UrlText(p) ==
    p.lead \o (IF p.scheme = "" THEN "" ELSE p.scheme \o "://")
           \o p.userinfo \o p.host \o p.port \o PathText(p.path) \o p.trail

\* url.strip()
strip(p) == [p EXCEPT !.lead = "", !.trail = ""]

\* str.lower(), on the parts of the model
Lower(s) == CASE s = "HTTPS" -> "https" [] s = "T.ME" -> "t.me" [] OTHER -> s

\* \d+
IsDigits(seg) == seg \in {"5"}

\* ^https?://t\.me/([^/]+)/(\d+)$ with re.IGNORECASE
TELEGRAM_MESSAGE_URL_RE(p) ==
    /\ Lower(p.scheme) \in {"http", "https"}
    /\ p.userinfo = "" /\ Lower(p.host) = "t.me" /\ p.port = ""
    /\ p.lead = "" /\ p.trail = ""
    /\ Len(p.path) = 2 /\ p.path[1] # "" /\ IsDigits(p.path[2])

(* urlparse: the scheme in lower case and the authority as written; an      *)
(* unclosed "[" in the authority makes it raise ValueError.                 *)
urlparse(p) ==
    [raised |-> p.host = "[bad",
     scheme |-> Lower(p.scheme),
     netloc |-> p.userinfo \o p.host \o p.port]

\* if not parsed.netloc: return False, None
HasAuthority(p) == urlparse(p).netloc # ""

\* lines 8-30 on parts: <<ok, the normalized URL (0 or 1 of them)>>
ValidateUrlParts(url) ==
    LET u == strip(url) IN
    IF UrlText(url) = "" THEN <<FALSE, <<>>>>
    ELSE IF TELEGRAM_MESSAGE_URL_RE(u)
    THEN <<TRUE, <<[u EXCEPT !.scheme = "https", !.host = "t.me"]>>>>
    ELSE IF urlparse(u).raised THEN <<FALSE, <<>>>>
    ELSE IF urlparse(u).scheme \notin {"http", "https"} THEN <<FALSE, <<>>>>
    ELSE IF ~HasAuthority(u) THEN <<FALSE, <<>>>>
    ELSE <<TRUE, <<u>>>>

\* the validator is applied to the drawn URL
do_validate_button_url ==
    /\ gres.op = "none"
    /\ gres' = [gres EXCEPT !.op = "validate_button_url",
                            !.result = ValidateUrlParts(gres.input)]
    /\ UNCHANGED <<sessVars, grid, _sessions, callback_payloads>>

\* the validator is applied to the URL it returned
do_validate_again ==
    /\ gres.op = "validate_button_url"
    /\ gres.result[1]
    /\ gres' = [gres EXCEPT !.op = "validate_again",
                            !.again = ValidateUrlParts(gres.result[2][1])]
    /\ UNCHANGED <<sessVars, grid, _sessions, callback_payloads>>

NextUrl ==
    \/ do_validate_button_url
    \/ do_validate_again

InitUrl ==
    /\ SessInit
    /\ scope = "url"
    /\ grid = <<>>
    /\ DraftIdle
    /\ \E p \in UrlInputs :
          gres = [op |-> "none", input |-> p, raised |-> FALSE,
                  result |-> <<FALSE, <<>>>>, again |-> <<FALSE, <<>>>>]

SpecUrl == InitUrl /\ [][NextUrl]_vars

----------------------------------------------------------------------------
(* The draft composition session: handlers/posts.py, services/posts.py and *)
(* models.py.  A Post is the dataclass without its author and timestamps;  *)
(* an Optional[int] is a sequence of length 0 or 1.  session["post"] is a  *)
(* sequence of length 1, and of length 0 once a reload has returned None.  *)
(* The posts table outlives the bot and has more than one writer, so the   *)
(* row it holds at the start carries any grid a writer may have left.      *)

\* most rows of the posts table, and most messages published in one run
MaxPosts == 2
MaxPublished == 1

\* config.CHANNEL_ID
CHANNEL_ID == "@chan"
\* the chat ids on the buttons of the channel list
Channels == {"@chan", "-1005"}

NewPost ==
    [id |-> <<>>, text |-> NoneV, photo_file_id |-> NoneV, keyboard |-> <<>>,
     status |-> "draft", published_message_id |-> <<>>, published_link |-> NoneV,
     published_channel |-> NoneV]

\* a length that takes the names "cap1025" and "body4097" for the texts themselves:
\* what PublishRejectsOverlongUpToUrls must notice
TextLenOfName(text) == Len(text)

\* len(text) of the texts of the model
TextLen(text) ==
    CASE text = ZWSP       -> 1
      [] text = "cap1025"  -> 1025
      [] text = "body4097" -> 4097
      [] OTHER             -> Len(text)

\* Post.to_row, the columns the model keeps
to_row(post) ==
    [text |-> post.text, photo_file_id |-> post.photo_file_id,
     keyboard_json |-> json_dumps(post.keyboard), status |-> post.status,
     published_message_id |-> post.published_message_id,
     published_link |-> post.published_link,
     published_channel |-> post.published_channel]

\* Post.from_row
from_row(id, row) ==
    [id |-> <<id>>, text |-> row.text, photo_file_id |-> row.photo_file_id,
     keyboard |-> IF json_loads(row.keyboard_json) = <<>> THEN <<>>
                  ELSE json_loads(row.keyboard_json)[1],
     status |-> IF Truthy(row.status) THEN row.status ELSE "draft",
     published_message_id |-> row.published_message_id,
     published_link |-> row.published_link,
     published_channel |-> row.published_channel]

\* cur.lastrowid of an INSERT
lastrowid(rows) ==
    IF DOMAIN rows = {} THEN 1
    ELSE 1 + (CHOOSE m \in DOMAIN rows : \A k \in DOMAIN rows : k <= m)

\* services/posts.py create_post: the INSERT names nine columns, published_channel is not one
create_post(rows, post) ==
    LET id == lastrowid(rows)
        row == [to_row(post) EXCEPT !.published_channel = NoneV]
    IN [id |-> id,
        rows |-> [x \in (DOMAIN rows) \cup {id} |-> IF x = id THEN row ELSE rows[x]]]

\* update_post, line 36
allowed ==
    {"text", "photo_file_id", "keyboard_json", "status", "published_message_id",
     "published_link"}

\* services/posts.py update_post: an UPDATE of the allowed columns of the row, if there is one
update_post(rows, post_id, fields) ==
    IF post_id \notin DOMAIN rows THEN rows
    ELSE [rows EXCEPT ![post_id] =
            [k \in DOMAIN rows[post_id] |->
                IF k \in allowed \cap DOMAIN fields THEN fields[k] ELSE rows[post_id][k]]]

\* get_post: Optional[Post]
get_post(rows, post_id) ==
    IF post_id \in DOMAIN rows THEN <<from_row(post_id, rows[post_id])>> ELSE <<>>

delete_post(rows, post_id) == [x \in (DOMAIN rows) \ {post_id} |-> rows[x]]

HasDraft(u) == u \in DOMAIN _sessions

\* {"post": post, "state": state}; the keys a handler adds later are absent
NewDraft(post, state) ==
    [post |-> <<post>>, state |-> state, post_channel |-> NoneV,
     kb_edit_target |-> <<>>, move_source |-> <<>>]

\* _sessions[uid] = s
PutDraft(u, s) == [x \in (DOMAIN _sessions) \cup {u} |-> IF x = u THEN s ELSE _sessions[x]]

\* _sessions.setdefault(user.id, {"post": Post(author_id=user.id), "state": "idle"})
setdefault(u) == IF HasDraft(u) THEN _sessions[u] ELSE NewDraft(NewPost, "idle")

\* the handlers the history variable tells apart
DraftTracked == {"cb_publish", "cb_save_draft", "cb_preview", "cb_kb_preview"}

\* the bookkeeping of a handler of the draft session
DLog(h, res, cs, ws) ==
    /\ last' = IF h \in DraftTracked THEN Ended(h, "-", res) ELSE Ended("other", "-", "-")
    /\ twice' = FALSE
    /\ calls' = cs
    /\ writes' = ws
    /\ UNCHANGED <<sessions, fsm, menus, origin, scope, grid, gres>>

\* a handler that changes nothing the model keeps (it answers the operator)
Answered(h, res) ==
    /\ UNCHANGED <<_sessions, db, live, callback_payloads>>
    /\ DLog(h, res, <<>>, <<>>)

\* the session dict with post.field = value; meaningless when the post is None
WithPost(s, post) == [s EXCEPT !.post = <<post>>]

\* a handler that only changes the session
SessionSet(u, s, h) ==
    /\ _sessions' = PutDraft(u, s)
    /\ UNCHANGED <<db, live, callback_payloads>>
    /\ DLog(h, "done", <<>>, <<>>)

\* lines 203-217
cmd_newpost(u) == SessionSet(u, NewDraft(NewPost, "await_text"), "cmd_newpost")

\* lines 220-227
cmd_cancel(u) ==
    /\ _sessions' = [x \in (DOMAIN _sessions) \ {u} |-> _sessions[x]]
    /\ UNCHANGED <<db, live, callback_payloads>>
    /\ DLog("cmd_cancel", "done", <<>>, <<>>)

\* an image that is stored without ending the prompt: what DraftTransitions must notice
handle_photo_keeping_state(u, file_id) ==
    IF ~HasDraft(u) \/ _sessions[u].post = <<>> THEN Answered("handle_photo", "none")
    ELSE LET s == _sessions[u] IN
         SessionSet(u, WithPost(s, [s.post[1] EXCEPT !.photo_file_id = file_id]), "handle_photo")
\* lines 230-239; post.photo_file_id raises when the post is None
handle_photo(u, file_id) ==
    IF ~HasDraft(u) \/ _sessions[u].post = <<>> THEN Answered("handle_photo", "none")
    ELSE LET s == _sessions[u] IN
         SessionSet(u, [WithPost(s, [s.post[1] EXCEPT !.photo_file_id = file_id])
                            EXCEPT !.state = "idle"], "handle_photo")

(* What the operator types.  A message is its text and what the parsers of *)
(* handle_text_and_state make of it: int(text) succeeds on an "int", the   *)
(* two-integer parse on a "coords", and splitlines gives two lines on a    *)
(* "button"; "cap1025" and "body4097" are texts of 1025 and 4097           *)
(* characters.                                                             *)
DraftTexts == {"t1", "cap1025", "body4097"}
TextMessages == {[kind |-> "text", text |-> t] : t \in DraftTexts}
IntMessages == {[kind |-> "int", text |-> ToString(n), n |-> n] : n \in -1..MaxSessCoord}
CoordMessages ==
    {[kind |-> "coords", text |-> ToString(r) \o " " \o ToString(c), r |-> r, c |-> c] :
        r \in -1..MaxSessCoord, c \in 0..MaxSessCoord}
ButtonMessages ==
    {[kind |-> "button", text |-> "A\n" \o second, first |-> "A", second |-> second] :
        second \in {"http://t.me/chan/5", "tok"}}

\* session.get("kb_edit_target", {}).get(key): None when either is absent
TargetGet(s, key) ==
    IF s.kb_edit_target = <<>> THEN <<>> ELSE s.kb_edit_target[1][key]

\* the result of a handler on the session dict: it raised or returned, and the dict as it left it
Returned(s) == [raised |-> FALSE, s |-> s]
Raised(s) == [raised |-> TRUE, s |-> s]

\* post.text = message.text or "", with the state the branch sets
TextSet(s, msg, state) ==
    IF s.post = <<>> THEN Raised(s)
    ELSE Returned([WithPost(s, [s.post[1] EXCEPT !.text = msg.text]) EXCEPT !.state = state])

\* post.keyboard = kb, state idle, and the pops of the branch
GridSet(s, kb) ==
    [WithPost(s, [s.post[1] EXCEPT !.keyboard = kb])
        EXCEPT !.state = "idle", !.kb_edit_target = <<>>]

\* lines 251-419, from the state read at line 250 on
TextInState(s, msg) ==
    LET post == s.post[1]
        norm == validate_button_url(msg.second)
    IN
    CASE s.state = "await_new_channel" -> Returned([s EXCEPT !.state = "idle"])
      [] s.state = "await_kb_row_index_for_add" ->
            IF msg.kind # "int" THEN Returned(s)
            ELSE Returned([s EXCEPT
                    !.kb_edit_target =
                        <<[row_index |-> IF msg.n = -1 THEN <<>> ELSE <<msg.n>>,
                           col_index |-> <<>>]>>,
                    !.state = "await_button_text_url"])
      [] s.state = "await_button_text_url" ->
            IF msg.kind # "button" \/ ~norm[1] THEN Returned(s)
            ELSE IF s.post = <<>> THEN Raised(s)
            ELSE LET row_index == TargetGet(s, "row_index")
                 IN Returned(GridSet(s,
                        add_button_to_row(post.keyboard, row_index,
                                          msg.first, NoneV, norm[2]).kb))
      [] s.state = "await_delete_coords" ->
            IF msg.kind # "coords" THEN Returned(s)
            ELSE IF s.post = <<>> THEN Raised(s)
            ELSE Returned([WithPost(s, [post EXCEPT
                                !.keyboard = delete_button(post.keyboard, msg.r, msg.c).kb])
                              EXCEPT !.state = "idle"])
      [] s.state = "await_edit_coords" ->
            IF msg.kind # "coords" THEN Returned(s)
            ELSE IF s.post = <<>> THEN Raised(s)
            ELSE IF \/ msg.r < 0 \/ msg.r >= Len(post.keyboard)
                    \/ msg.c < 0 \/ msg.c >= Len(post.keyboard[msg.r + 1])
                 THEN Returned([s EXCEPT !.state = "idle"])
                 ELSE Returned([s EXCEPT
                        !.kb_edit_target = <<[row_index |-> <<msg.r>>, col_index |-> <<msg.c>>]>>,
                        !.state = "await_new_button_text_url"])
      [] s.state = "await_new_button_text_url" ->
            IF msg.kind # "button" \/ ~norm[1] THEN Returned(s)
            ELSE LET r == TargetGet(s, "row_index")
                     c == TargetGet(s, "col_index")
                 IN IF \/ s.post = <<>> \/ r = <<>> \/ c = <<>>
                       \/ r[1] >= Len(post.keyboard)
                       \/ c[1] >= Len(post.keyboard[r[1] + 1])
                    THEN Raised(s)
                    ELSE Returned(GridSet(s,
                            [post.keyboard EXCEPT ![r[1] + 1][c[1] + 1] =
                                [text |-> msg.first, callback_data |-> NoneV, url |-> norm[2]]]))
      [] s.state = "await_move_source" ->
            IF msg.kind # "coords" THEN Returned(s)
            ELSE Returned([s EXCEPT !.move_source = <<[r |-> msg.r, c |-> msg.c]>>,
                                    !.state = "await_move_target"])
      [] s.state = "await_move_target" ->
            IF msg.kind # "coords" THEN Returned(s)
            ELSE IF s.move_source = <<>> THEN Returned([s EXCEPT !.state = "idle"])
            ELSE IF s.post = <<>> THEN Raised(s)
            ELSE LET src == s.move_source[1]
                     m == move_button(post.keyboard, src.r, src.c, msg.r, msg.c)
                 IN IF m.raised
                    THEN Raised(WithPost(s, [post EXCEPT !.keyboard = m.kb]))
                    ELSE Returned([WithPost(s, [post EXCEPT !.keyboard = m.kb])
                                      EXCEPT !.state = "idle", !.move_source = <<>>])
      [] s.state = "await_format_cols" ->
            IF msg.kind # "int" \/ msg.n <= 0 THEN Returned(s)
            ELSE IF s.post = <<>> THEN Raised(s)
            ELSE Returned([WithPost(s, [post EXCEPT
                                !.keyboard = reformat_columns(post.keyboard, msg.n).kb])
                              EXCEPT !.state = "idle"])
      [] s.state \in {"await_text", "await_new_text"} -> TextSet(s, msg, "idle")
      [] OTHER -> TextSet(s, msg, s.state)

\* lines 244-419
handle_text_and_state(u, msg) ==
    IF ~HasDraft(u) THEN Answered("handle_text_and_state", "none")
    ELSE SessionSet(u, TextInState(_sessions[u], msg).s, "handle_text_and_state")

\* what the transport answers to a send: accepted, TelegramBadRequest,
\* TelegramForbiddenError, any other fault
SendOutcomes == {"ok", "bad_request", "forbidden", "fault"}

\* lines 93-97: <<final_text, photo>>
_normalize_empty_for_send(text, photo_file_id) ==
    LET final_text == IF Truthy(text) THEN text ELSE ""
    IN <<IF final_text = "" /\ ~Truthy(photo_file_id) THEN ZWSP ELSE final_text, photo_file_id>>

\* "too long" in (msg or "").lower(), on the reasons validate_keyboard_structure gives
TooLong(msg) == msg = "too long"

(* _safe_build_markup_and_handle_validation, with the caller's test "if     *)
(* post.keyboard else None": whether ValueError was raised, the grid as the *)
(* validation left it, the rows of the markup (none for None), and the      *)
(* table of the Long-Payload Store.                                         *)
SafeBuild(keyboard, table, ids) ==
    IF keyboard = <<>>
    THEN [raised |-> FALSE, kb |-> keyboard, markup |-> <<>>, table |-> table]
    ELSE LET v == validate_keyboard_structure(keyboard)
             b == build_inline_markup(v[3], table, ids)
         IN IF v[1] \/ TooLong(v[2])
            THEN [raised |-> FALSE, kb |-> v[3], markup |-> b.rows, table |-> b.table]
            ELSE [raised |-> TRUE, kb |-> v[3], markup |-> <<>>, table |-> table]

\* the ids make_short_id may return to the store calls of one build of the user's grid
IdDraws(u) ==
    LET kb == IF HasDraft(u) /\ _sessions[u].post # <<>>
              THEN _sessions[u].post[1].keyboard ELSE <<>>
    IN [1..StoreCalls(kb) -> make_short_id]

\* bot.send_photo / bot.send_message, as the history variable records it
SendCall(chat, text, photo, markup, o) ==
    [op |-> IF Truthy(photo) THEN "send_photo" ELSE "send_message", chat |-> chat, res |-> o]

\* a handler's effect on the four stores
DraftStep(u, s, rows, lv, table, h, res, cs, ws) ==
    /\ _sessions' = PutDraft(u, s)
    /\ db' = rows
    /\ live' = lv
    /\ callback_payloads' = table
    /\ DLog(h, res, cs, ws)

\* a callback that only sets session["state"], on an existing session
StateSet(u, state, h) ==
    IF ~HasDraft(u) THEN Answered(h, "no_session")
    ELSE SessionSet(u, [_sessions[u] EXCEPT !.state = state], h)

\* lines 423-446: the editor menu; setdefault creates the session
cb_edit_keyboard(u) == SessionSet(u, setdefault(u), "cb_edit_keyboard")

\* lines 449-456
cb_kb_add_row(u) ==
    LET s == setdefault(u) IN
    SessionSet(u, IF s.post = <<>> THEN s
                  ELSE WithPost(s, [s.post[1] EXCEPT !.keyboard = add_row(s.post[1].keyboard).kb]),
               "cb_kb_add_row")

\* lines 459-465
cb_kb_add_button(u) ==
    SessionSet(u, [setdefault(u) EXCEPT !.state = "await_kb_row_index_for_add"],
               "cb_kb_add_button")

\* lines 483-511: kb_select_delete and kb_select_edit
KbSelect(u, state, h) ==
    IF ~HasDraft(u) THEN Answered(h, "no_session")
    ELSE IF _sessions[u].post = <<>> \/ _sessions[u].post[1].keyboard = <<>>
    THEN Answered(h, "empty")
    ELSE StateSet(u, state, h)

cb_kb_select_delete(u) == KbSelect(u, "await_delete_coords", "cb_kb_select_delete")
cb_kb_select_edit(u) == KbSelect(u, "await_edit_coords", "cb_kb_select_edit")

\* lines 514-525: the session is created before the grid is looked at
cb_kb_select_move(u) ==
    LET s == setdefault(u) IN
    SessionSet(u, IF s.post = <<>> \/ s.post[1].keyboard = <<>> THEN s
                  ELSE [s EXCEPT !.state = "await_move_source"],
               "cb_kb_select_move")

\* lines 528-534
cb_kb_format(u) ==
    SessionSet(u, [setdefault(u) EXCEPT !.state = "await_format_cols"], "cb_kb_format")

\* the session dict after the validation of its grid
Validated(s, sb) == WithPost(s, [s.post[1] EXCEPT !.keyboard = sb.kb])

\* lines 476-480 and 556-573: s is the session after validation, n the normalized content
PreviewBuilt(u, o, s, sb, n, h, withContent) ==
    IF sb.raised
    THEN DraftStep(u, s, db, live, sb.table, h, "invalid_keyboard", <<>>, <<>>)
    ELSE DraftStep(u, s, db, live, sb.table, h, o,
            <<IF withContent
              THEN SendCall("user", IF n[1] = ZWSP THEN "" ELSE n[1], n[2], sb.markup, o)
              ELSE SendCall("user", "<keyboard preview>", NoneV, sb.markup, o)>>,
            <<>>)

\* lines 468-480 and 547-573: validate, build, send to the operator's chat
Preview(u, o, ids, h, withContent) ==
    IF ~HasDraft(u) THEN Answered(h, "no_session")
    ELSE IF _sessions[u].post = <<>> THEN Answered(h, "raised")
    ELSE PreviewBuilt(u, o,
            Validated(_sessions[u],
                      SafeBuild(_sessions[u].post[1].keyboard, callback_payloads, ids)),
            SafeBuild(_sessions[u].post[1].keyboard, callback_payloads, ids),
            _normalize_empty_for_send(_sessions[u].post[1].text,
                                      _sessions[u].post[1].photo_file_id),
            h, withContent)

cb_kb_preview(u, o, ids) == Preview(u, o, ids, "cb_kb_preview", FALSE)
cb_preview(u, o, ids) == Preview(u, o, ids, "cb_preview", TRUE)

\* a database write, as the history variable records it
DbWrite(op, id) == [op |-> op, id |-> id]

\* lines 576-600
cb_save_draft(u) ==
    IF ~HasDraft(u) THEN Answered("cb_save_draft", "no_session")
    ELSE IF _sessions[u].post = <<>> THEN Answered("cb_save_draft", "raised")
    ELSE LET s == _sessions[u]
             post == s.post[1]
         IN IF post.id # <<>>
            THEN LET rows == update_post(db, post.id[1],
                                [text |-> post.text, photo_file_id |-> post.photo_file_id,
                                 keyboard_json |-> json_dumps(post.keyboard),
                                 status |-> post.status])
                     updated == get_post(rows, post.id[1])
                 IN DraftStep(u, [s EXCEPT !.post = updated], rows, live, callback_payloads,
                              "cb_save_draft", IF updated = <<>> THEN "raised" ELSE "saved",
                              <<>>, <<DbWrite("update_post", post.id[1])>>)
            ELSE LET new == create_post(db, post)
                 IN /\ Cardinality(DOMAIN db) < MaxPosts
                    /\ DraftStep(u, WithPost(s, [post EXCEPT !.id = <<new.id>>]), new.rows, live,
                                 callback_payloads, "cb_save_draft", "saved",
                                 <<>>, <<DbWrite("create_post", new.id)>>)

\* res.message_id of an accepted send: the next message of the chat
NextMessageId(lv, chat) ==
    LET ids == {k[2] : k \in {x \in DOMAIN lv : x[1] = chat}}
    IN IF ids = {} THEN 1 ELSE 1 + (CHOOSE m \in ids : \A k \in ids : k <= m)

\* lines 642-652, on the channels of the model
PublishedLink(channel_id, message_id) ==
    CASE channel_id = "@chan"  -> "https://t.me/chan/" \o ToString(message_id)
      [] channel_id = "@c"     -> "https://t.me/c/" \o ToString(message_id)
      [] channel_id = "-1005"  -> "https://t.me/c/5/" \o ToString(message_id)
      [] channel_id = "-1007"  -> "https://t.me/c/7/" \o ToString(message_id)
      [] OTHER                 -> "https://t.me/c/" \o channel_id \o "/" \o ToString(message_id)

\* lines 654-662: the write of the publication, on a post with an id and on one without
PublishStored(u, s, channel_id, sb, call, mid, posted) ==
    LET post == s.post[1]
        link == PublishedLink(channel_id, mid)
        marked == [post EXCEPT !.status = "published",
                               !.published_message_id = <<mid>>,
                               !.published_link = link,
                               !.published_channel = channel_id]
    IN IF post.id # <<>>
       THEN DraftStep(u, s,
                      update_post(db, post.id[1],
                          [status |-> "published", published_message_id |-> <<mid>>,
                           published_link |-> link, published_channel |-> channel_id]),
                      posted, sb.table, "cb_publish", "ok",
                      <<call>>, <<DbWrite("update_post", post.id[1])>>)
       ELSE /\ Cardinality(DOMAIN db) < MaxPosts
            /\ DraftStep(u, WithPost(s, [marked EXCEPT !.id = <<lastrowid(db)>>]),
                         create_post(db, marked).rows, posted, sb.table, "cb_publish", "ok",
                         <<call>>, <<DbWrite("create_post", lastrowid(db))>>)

\* lines 624-639: the send of text `sent` with the photo, and the message it creates
PublishSent(u, o, s, channel_id, sb, sent, photo) ==
    LET mid == NextMessageId(live, channel_id)
        call == SendCall(channel_id, sent, photo, sb.markup, o)
    IN IF o # "ok"
       THEN DraftStep(u, s, db, live, sb.table, "cb_publish", o, <<call>>, <<>>)
       ELSE /\ Cardinality(DOMAIN live) < MaxPublished
            /\ PublishStored(u, s, channel_id, sb, call, mid,
                    [x \in (DOMAIN live) \cup {<<channel_id, mid>>} |->
                        IF x = <<channel_id, mid>>
                        THEN [text |-> sent, photo |-> photo, keyboard |-> sb.kb]
                        ELSE live[x]])

\* lines 616-636: s is the session with the grid as the validation left it, n the
\* result of _normalize_empty_for_send
PublishBuilt(u, o, s, channel_id, sb, n) ==
    IF sb.raised
    THEN DraftStep(u, s, db, live, sb.table, "cb_publish", "invalid_keyboard", <<>>, <<>>)
    ELSE IF Truthy(n[2])
    THEN IF TextLen(IF n[1] = ZWSP THEN "" ELSE n[1]) > 1024
         THEN DraftStep(u, s, db, live, sb.table, "cb_publish", "too_long", <<>>, <<>>)
         ELSE PublishSent(u, o, s, channel_id, sb, IF n[1] = ZWSP THEN "" ELSE n[1], n[2])
    ELSE IF TextLen(n[1]) > 4096
         THEN DraftStep(u, s, db, live, sb.table, "cb_publish", "too_long", <<>>, <<>>)
         ELSE PublishSent(u, o, s, channel_id, sb, n[1], n[2])

\* lines 603-672
cb_publish(u, o, ids) ==
    IF ~HasDraft(u) THEN Answered("cb_publish", "no_session")
    ELSE IF _sessions[u].post = <<>> THEN Answered("cb_publish", "raised")
    ELSE PublishBuilt(u, o,
            Validated(_sessions[u],
                      SafeBuild(_sessions[u].post[1].keyboard, callback_payloads, ids)),
            IF Truthy(_sessions[u].post_channel) THEN _sessions[u].post_channel ELSE CHANNEL_ID,
            SafeBuild(_sessions[u].post[1].keyboard, callback_payloads, ids),
            _normalize_empty_for_send(_sessions[u].post[1].text,
                                      _sessions[u].post[1].photo_file_id))

\* lines 686-707
cb_edit_text(u) == StateSet(u, "await_new_text", "cb_edit_text")
cb_edit_photo(u) == StateSet(u, "await_new_photo", "cb_edit_photo")

\* lines 722-744: post.text = "" and post.photo_file_id = None
FieldCleared(u, h, field, value) ==
    IF ~HasDraft(u) THEN Answered(h, "no_session")
    ELSE IF _sessions[u].post = <<>> THEN Answered(h, "raised")
    ELSE SessionSet(u, WithPost(_sessions[u], [_sessions[u].post[1] EXCEPT ![field] = value]), h)

cb_delete_text(u) == FieldCleared(u, "cb_delete_text", "text", "")
cb_delete_photo(u) == FieldCleared(u, "cb_delete_photo", "photo_file_id", NoneV)

\* lines 765-798: the post of the row replaces the session
cb_open_draft(u, pid) ==
    IF get_post(db, pid) = <<>> THEN Answered("cb_open_draft", "not_found")
    ELSE SessionSet(u, NewDraft(get_post(db, pid)[1], "idle"), "cb_open_draft")

\* lines 801-837: the row goes, the session stays
cb_delete_draft(u, pid) ==
    /\ db' = delete_post(db, pid)
    /\ UNCHANGED <<_sessions, live, callback_payloads>>
    /\ DLog("cb_delete_draft", "done", <<>>, <<DbWrite("delete_post", pid)>>)

\* lines 860-864
cmd_addchannel(u) ==
    SessionSet(u, [setdefault(u) EXCEPT !.state = "await_new_channel"], "cmd_addchannel")

\* lines 881-888
cb_select_channel(u, payload) ==
    SessionSet(u, [setdefault(u) EXCEPT !.post_channel = payload], "cb_select_channel")

(* The runs of the draft session, one kind at a time.  In a "limits" run    *)
(* the operator writes texts of every length, sets and removes a photo,    *)
(* opens a stored post and publishes; in a "compose" run they write,       *)
(* replace and delete a short text, save and publish; a "drafts" run       *)
(* opens, deletes, saves, previews and publishes the stored posts; a       *)
(* "keys" run is about the keyboard editor and its prompts, a "channels"   *)
(* run chooses the channel to publish to.  The operator has no edit        *)
(* session (post_edit_flow.py's catch_edit_responses, registered before    *)
(* this router, would take their messages).  Each handler is the same in   *)
(* every run.                                                              *)
DraftScopes == {"limits", "compose", "drafts", "keys", "channels"}

\* the states in which handle_text_and_state expects keyboard input
PromptedStates ==
    {"await_kb_row_index_for_add", "await_button_text_url", "await_delete_coords",
     "await_edit_coords", "await_new_button_text_url", "await_move_source",
     "await_move_target", "await_format_cols"}

\* what the operator types in this run
DraftMessages(u) ==
    IF scope = "limits" THEN TextMessages
    ELSE IF scope # "keys" THEN {[kind |-> "text", text |-> "t1"]}
    ELSE IF HasDraft(u) /\ _sessions[u].state \in PromptedStates
    THEN IntMessages \cup CoordMessages \cup ButtonMessages
    ELSE {}

\* the grid stays within the bounds of the model
DraftFits ==
    \A u \in DOMAIN _sessions' :
        _sessions'[u].post = <<>> \/ Fits(_sessions'[u].post[1].keyboard)

UrlRaw == [text |-> "b", callback_data |-> NoneV, url |-> "http://t.me/chan/5"]
NoText == [text |-> NoneV, callback_data |-> "tok", url |-> NoneV]

\* the grids the stored row may hold when the bot starts
StoredGrids ==
    {<<>>, <<<<UrlRaw>>>>, <<<<LongTok, Bare>>>>, <<<<Bare, LongTok>>>>,
     <<<<LongTok>>, <<NoText>>>>}

\* a "drafts" run starts from any of them, a "limits" run from the first two
StartGrids(sc) ==
    CASE sc = "drafts" -> StoredGrids
      [] sc = "limits" -> {<<>>, <<<<UrlRaw>>>>}
      [] OTHER         -> {<<>>}

StoredRow(g) ==
    [text |-> "t0", photo_file_id |-> NoneV, keyboard_json |-> json_dumps(g),
     status |-> "draft", published_message_id |-> <<>>, published_link |-> NoneV,
     published_channel |-> NoneV]

\* the ids on the buttons of /drafts lists, old and new
PostIds == 1..MaxPosts

NextDraft ==
    \/ \E u \in Users : scope # "drafts" /\ cmd_newpost(u)
    \/ \E u \in Users : cmd_cancel(u)
    \/ \E u \in Users : scope \in {"limits", "keys"} /\ handle_photo(u, "photo1")
    \/ \E u \in Users : \E msg \in DraftMessages(u) : handle_text_and_state(u, msg) /\ DraftFits
    \/ \E u \in Users : scope = "keys" /\ cb_edit_keyboard(u)
    \/ \E u \in Users : scope = "keys" /\ cb_kb_add_row(u) /\ DraftFits
    \/ \E u \in Users : scope = "keys" /\ cb_kb_add_button(u)
    \/ \E u \in Users : scope = "keys" /\ cb_kb_select_delete(u)
    \/ \E u \in Users : scope = "keys" /\ cb_kb_select_edit(u)
    \/ \E u \in Users : scope = "keys" /\ cb_kb_select_move(u)
    \/ \E u \in Users : scope = "keys" /\ cb_kb_format(u)
    \/ \E u \in Users : \E o \in SendOutcomes : \E ids \in IdDraws(u) :
            scope = "drafts" /\ cb_kb_preview(u, o, ids)
    \/ \E u \in Users : \E o \in SendOutcomes : \E ids \in IdDraws(u) :
            scope = "drafts" /\ cb_preview(u, o, ids)
    \/ \E u \in Users : scope \in {"compose", "drafts"} /\ cb_save_draft(u)
    \/ \E u \in Users : \E o \in SendOutcomes : \E ids \in IdDraws(u) :
            scope # "keys" /\ cb_publish(u, o, ids)
    \/ \E u \in Users : scope = "compose" /\ cb_edit_text(u)
    \/ \E u \in Users : scope = "limits" /\ cb_edit_photo(u)
    \/ \E u \in Users : scope = "compose" /\ cb_delete_text(u)
    \/ \E u \in Users : scope = "limits" /\ cb_delete_photo(u)
    \/ \E u \in Users : \E pid \in PostIds : scope \in {"drafts", "limits"} /\ cb_open_draft(u, pid)
    \/ \E u \in Users : \E pid \in PostIds : scope = "drafts" /\ cb_delete_draft(u, pid)
    \/ \E u \in Users : scope = "channels" /\ cmd_addchannel(u)
    \/ \E u \in Users : \E payload \in Channels : scope = "channels" /\ cb_select_channel(u, payload)

InitDraft ==
    /\ sessions = <<>>
    /\ fsm = [u \in Users |-> FsmClear]
    /\ scope \in DraftScopes
    /\ db \in {(1 :> StoredRow(g)) : g \in StartGrids(scope)}
    /\ live = <<>>
    /\ menus = [u \in Users |-> NoMenus]
    /\ origin = [u \in Users |-> "none"]
    /\ last = Ended("start", "-", "-")
    /\ twice = FALSE
    /\ calls = <<>>
    /\ writes = <<>>
    /\ GridIdle
    /\ DraftIdle

SpecDraft == InitDraft /\ [][NextDraft]_vars

----------------------------------------------------------------------------
(* Two operators apply to the same post at once.  Operator 1 runs          *)
(* apply_text and operator 2 runs apply_keyboard; a handler gives way at   *)
(* each await, so the steps of the two interleave in any order.  The       *)
(* transport accepts every call that reaches it.  The position of each     *)
(* handler and the order of the steps taken are kept in gres.              *)

TextOperator == 1
KeyboardOperator == 2

\* what the two operators have staged
RaceTexts == {"t1", ""}
RaceGrids == {<<>>, <<<<TokButton, TokButton>>>>}

RaceKey == <<"@chan", 10>>

At(u, pos) == gres.pc[u] = pos

Reached(u, pos, step) ==
    gres' = [gres EXCEPT !.pc[u] = pos, !.trace = Append(@, step)]

RaceFrame == UNCHANGED <<fsm, menus, origin, last, twice, scope, calls, writes, grid,
                         _sessions, callback_payloads>>

\* lines 291-294: await edit_message_text
apply_text_edit ==
    /\ At(TextOperator, "start")
    /\ live' = TextEdit(live, RaceKey, sessions[TextOperator].text, "ok", "ok").live
    /\ Reached(TextOperator, "edited", "edit_message_text")
    /\ UNCHANGED <<db, sessions>>
    /\ RaceFrame

\* lines 299-304: await update_post_text
apply_text_update ==
    /\ At(TextOperator, "edited")
    /\ \E at \in Stamps(db, sessions[TextOperator]) :
          db' = UpdatePost(db, sessions[TextOperator].post_id[1], "text",
                           sessions[TextOperator].text, at)
    /\ Reached(TextOperator, "written", "update_post_text")
    /\ UNCHANGED <<live, sessions>>
    /\ RaceFrame

\* lines 305-306: the snapshot, then await callback.answer
apply_text_answer ==
    /\ At(TextOperator, "written")
    /\ sessions' = [sessions EXCEPT ![TextOperator] = Snapshot(@, "orig_text", "text")]
    /\ Reached(TextOperator, "done", "answer_text")
    /\ UNCHANGED <<db, live>>
    /\ RaceFrame

\* lines 345-347: the markup (not awaited), then await edit_message_reply_markup
apply_keyboard_edit ==
    /\ At(KeyboardOperator, "start")
    /\ IF "ok" \in PushMarkupOutcomes(sessions[KeyboardOperator].keyboard)
       THEN /\ live' = [live EXCEPT ![RaceKey].keyboard = sessions[KeyboardOperator].keyboard]
            /\ Reached(KeyboardOperator, "edited", "edit_message_reply_markup")
       ELSE /\ live' = live
            /\ Reached(KeyboardOperator, "raised", "edit_message_reply_markup")
    /\ UNCHANGED <<db, sessions>>
    /\ RaceFrame

\* lines 351-356: await update_post_keyboard
apply_keyboard_update ==
    /\ At(KeyboardOperator, "edited")
    /\ \E at \in Stamps(db, sessions[KeyboardOperator]) :
          db' = UpdatePost(db, sessions[KeyboardOperator].post_id[1], "keyboard",
                           sessions[KeyboardOperator].keyboard, at)
    /\ Reached(KeyboardOperator, "written", "update_post_keyboard")
    /\ UNCHANGED <<live, sessions>>
    /\ RaceFrame

\* lines 357-359: the snapshot, then await callback.answer
apply_keyboard_answer ==
    /\ At(KeyboardOperator, "written")
    /\ sessions' = [sessions EXCEPT ![KeyboardOperator] =
                        [Snapshot(@, "orig_keyboard", "keyboard") EXCEPT !.keyboard_staged = FALSE]]
    /\ Reached(KeyboardOperator, "done", "answer_keyboard")
    /\ UNCHANGED <<db, live>>
    /\ RaceFrame

NextRace ==
    \/ apply_text_edit
    \/ apply_text_update
    \/ apply_text_answer
    \/ apply_keyboard_edit
    \/ apply_keyboard_update
    \/ apply_keyboard_answer

\* both operators hold a session on post 1, opened by /editpost, with a text and a grid staged
InitRace ==
    /\ db = InitialPosts
    /\ live = InitialLive
    /\ \E t \in RaceTexts, g \in RaceGrids :
          sessions = (TextOperator :> [NewSession(<<1>>, "@chan", 10) EXCEPT !.text = t])
                     @@ (KeyboardOperator :> [NewSession(<<1>>, "@chan", 10)
                                                 EXCEPT !.keyboard = g, !.keyboard_staged = TRUE])
    /\ fsm = [u \in Users |-> FsmClear]
    /\ menus = [u \in Users |-> NoMenus]
    /\ origin = [u \in Users |-> "none"]
    /\ last = Ended("start", "-", "-")
    /\ twice = FALSE
    /\ calls = <<>>
    /\ writes = <<>>
    /\ scope = "race"
    /\ grid = <<>>
    /\ gres = [op |-> "apply", pc |-> (TextOperator :> "start") @@ (KeyboardOperator :> "start"),
               trace |-> <<>>]
    /\ DraftIdle

SpecRace == InitRace /\ [][NextRace]_vars

----------------------------------------------------------------------------
(* A post from the draft session to the edit session: the operator writes  *)
(* a post, saves it or not, chooses a channel or not, publishes it, and    *)
(* gives /editpost the id of a row.  Both handlers work on the same posts  *)
(* table.                                                                  *)

NextPublished ==
    \/ \E u \in Users : cmd_newpost(u)
    \/ \E u \in Users : \E msg \in DraftMessages(u) : handle_text_and_state(u, msg)
    \/ \E u \in Users : cb_save_draft(u)
    \/ \E u \in Users : \E payload \in Channels : cb_select_channel(u, payload)
    \/ \E u \in Users : \E o \in SendOutcomes : \E ids \in IdDraws(u) : cb_publish(u, o, ids)
    \/ \E u \in Users : \E arg \in EditpostArgs : cmd_editpost(u, arg)

\* no session of either kind, an empty posts table, no channel message
InitPublished ==
    /\ sessions = <<>>
    /\ fsm = [u \in Users |-> FsmClear]
    /\ scope = "published"
    /\ db = <<>>
    /\ live = <<>>
    /\ menus = [u \in Users |-> NoMenus]
    /\ origin = [u \in Users |-> "none"]
    /\ last = Ended("start", "-", "-")
    /\ twice = FALSE
    /\ calls = <<>>
    /\ writes = <<>>
    /\ GridIdle
    /\ DraftIdle

SpecPublished == InitPublished /\ [][NextPublished]_vars

----------------------------------------------------------------------------
(* The link of a publication and its parser: cb_publish derives the link    *)
(* of a message it has sent (handlers/posts.py 641-652), and /editpost      *)
(* parses the link the operator pastes (post_edit_flow.py 25-37).           *)

\* the channels a post is published to: public names and -100<digits> ids
LinkChannels == {"@chan", "@c", "-1005", "-1007"}

NoLink == [op |-> "none", channel |-> NoneV, message |-> 0, link |-> "",
           parsed |-> <<NoneV, <<>>>>]

\* handlers/posts.py 639-652: the link of message M of the channel
derive_published_link ==
    /\ gres.op = "none"
    /\ \E channel_id \in LinkChannels, M \in LinkNumbers \ {0} :
          gres' = [NoLink EXCEPT !.op = "published_link", !.channel = channel_id,
                                 !.message = M, !.link = PublishedLink(channel_id, M)]
    /\ UNCHANGED <<sessVars, grid, _sessions, callback_payloads>>

\* the operator writes a link of their own
paste_link ==
    /\ gres.op = "none"
    /\ \E path \in LinkPaths :
          gres' = [NoLink EXCEPT !.op = "pasted_link", !.link = LinkText(path)]
    /\ UNCHANGED <<sessVars, grid, _sessions, callback_payloads>>

\* post_edit_flow.py 28-37
do_parse_post_link ==
    /\ gres.op \in {"published_link", "pasted_link"}
    /\ gres' = [gres EXCEPT !.op = IF gres.op = "published_link" THEN "parsed_published"
                                    ELSE "parsed_pasted",
                            !.parsed = parse_post_link(gres.link)]
    /\ UNCHANGED <<sessVars, grid, _sessions, callback_payloads>>

NextLink ==
    \/ derive_published_link
    \/ paste_link
    \/ do_parse_post_link

InitLink ==
    /\ SessInit
    /\ scope = "link"
    /\ grid = <<>>
    /\ DraftIdle
    /\ gres = NoLink

SpecLink == InitLink /\ [][NextLink]_vars

----------------------------------------------------------------------------
(* Properties of the edit session (checked under Spec)                     *)

\* the operator whose session the properties follow
Op == CHOOSE u \in Users : TRUE
LiveKey == <<"@chan", 10>>
MainMenu == "cb_editpost_main"

\* the snapshot fields of the operator's session, or of the stub a handler would make
OrigBefore(o) ==
    IF HasSession(Op) THEN sessions[Op][o]
    ELSE IF o = "orig_keyboard" THEN <<>> ELSE NoneV

(* C1: from the opening of an edit session until an apply action, no step  *)
(* (open, text/photo capture, keyboard-editor action, stage, preview,      *)
(* cancel) issues an edit call on the live message or writes the Post row. *)
NoRemoteMutationBeforeApply ==
    [][last'.a \notin ApplyActions =>
         /\ calls' = <<>>
         /\ writes' = <<>>
         /\ live' = live
         /\ db' = db]_vars

\* text, photo and an emptied grid are staged, and nothing of it is on the channel or in the row
StagedNotApplied ==
    /\ HasSession(Op)
    /\ sessions[Op].text = "t1"
    /\ sessions[Op].photo_file_id = "p1"
    /\ sessions[Op].keyboard = <<>>
    /\ last.h = "other"
    /\ live = InitialLive
    /\ db = InitialPosts

Rank(op) ==
    CASE op = "edit_message_media" -> 1
      [] op \in {"edit_message_text", "edit_message_caption"} -> 2
      [] OTHER -> 3

\* media before text/caption before keyboard, the media and the keyboard call at most once
CallsInOrder(cs) ==
    /\ \A i, j \in 1..Len(cs) : i < j => Rank(cs[i].op) <= Rank(cs[j].op)
    /\ \A i, j \in 1..Len(cs) : (i # j /\ cs[i].op = cs[j].op) => Rank(cs[i].op) = 2

\* only the last call may have failed; a refused edit_message_text is retried as a caption
NoCallAfterFailure(cs) ==
    \A i \in 1..(Len(cs) - 1) :
        \/ cs[i].res = "ok"
        \/ /\ cs[i].op = "edit_message_text"
           /\ cs[i].res = "bad_request"
           /\ cs[i + 1].op = "edit_message_caption"

(* C2: apply_all makes its calls in the order media, text/caption,         *)
(* keyboard; when a step fails no later call is made, the Post row is not  *)
(* written, the original snapshots are unchanged and the session remains.  *)
ApplyAllOrderAndAbort ==
    [][last'.a = "apply_all" =>
         /\ CallsInOrder(calls')
         /\ NoCallAfterFailure(calls')
         /\ last'.res # "ok" =>
              /\ calls'[Len(calls')].res # "ok"
              /\ writes' = <<>>
              /\ db' = db
              /\ Op \in DOMAIN sessions'
              /\ \A o \in {"orig_text", "orig_photo_file_id", "orig_keyboard"} :
                    sessions'[Op][o] = OrigBefore(o)]_vars

\* apply_all replaced the media and failed at a later step
ApplyAllFailedAfterMedia ==
    /\ last = Ended(MainMenu, "apply_all", "rejected")
    /\ Len(calls) >= 2
    /\ calls[1].op = "edit_message_media" /\ calls[1].res = "ok"
    /\ live[LiveKey].photo = "p1"
    /\ db[1].photo_file_id = NoneV
    /\ HasSession(Op)

(* C4: an operator has an edit session only if /editpost created it, after *)
(* the coordinates were resolved and the rights check passed; no other     *)
(* action creates one.                                                     *)
SessionsOnlyFromEditpost ==
    \A u \in Users : HasSession(u) => origin[u] = "cmd_editpost"

SessionEnders == {Ended(MainMenu, "cancel", "done"), Ended(MainMenu, "apply_all", "ok")}

(* C5: the operator's session is removed by cancel and by an apply_all     *)
(* whose every step succeeded, and by nothing else.                        *)
SessionRemovedByCancelOrFullApply ==
    [][/\ (HasSession(Op) /\ Op \notin DOMAIN sessions') => last' \in SessionEnders
       /\ last' \in SessionEnders => Op \notin DOMAIN sessions']_vars

\* a full apply_all has just ended the session
SessionEndedByApplyAll ==
    /\ last = Ended(MainMenu, "apply_all", "ok")
    /\ writes # <<>>
    /\ ~HasSession(Op)

\* structural validation rejects the grid, and not for an over-long action token
Rejects(kb) ==
    LET v == validate_keyboard_structure(kb) IN ~v[1] /\ v[2] # "too long"

FieldOf(a) ==
    CASE a = "apply_text" -> [staged |-> "text", orig |-> "orig_text", col |-> "text"]
      [] a = "apply_photo" -> [staged |-> "photo_file_id", orig |-> "orig_photo_file_id",
                               col |-> "photo_file_id"]
      [] OTHER -> [staged |-> "keyboard", orig |-> "orig_keyboard", col |-> "keyboard"]

ContentOf(rows) == [p \in DOMAIN rows |-> [rows[p] EXCEPT !.updated_at = 0]]

PerFieldApplies == {"apply_text", "apply_photo", "apply_keyboard"}

----------------------------------------------------------------------------
(* Properties of the grid engine (checked under SpecGrid)                  *)

(* C9: move_button keeps the multiset of buttons: for every grid, every    *)
(* source and every target, the grid after the call holds exactly the      *)
(* buttons of the grid before it.                                          *)
MoveKeepsButtons ==
    gres.op = "move_button" => BagOf(Flatten(grid)) = BagOf(Flatten(gres.input))

(* C10: every grid operation is total: whatever the grid and the integer   *)
(* arguments, the call returns a grid and does not raise.                  *)
GridOpsTotal == ~gres.raised

----------------------------------------------------------------------------
(* Properties of single grid operations (checked under SpecLaw)            *)

\* the call that just ran: its name, the grid it was given, its arguments
Ran(op) == gres.op = op
Before == gres.input
RowBag(kb, r) == BagOf(kb[r + 1])

\* the grid after the deleted button b is added again at the same row index
ReAdded ==
    LET b == Before[gres.args[1] + 1][gres.args[2] + 1]
    IN add_button_to_row(grid, <<gres.args[1]>>, b.text, b.callback_data, b.url).kb

DeletedInRange == Ran("delete_button") /\ InRange(Before, gres.args[1], gres.args[2])

(* C11, as stated: after delete_button at an in-range (r, c) and            *)
(* add_button_to_row at row index r with the deleted button's text and      *)
(* target, some row of the grid (row r, or the row it shifted to) holds the *)
(* same multiset of buttons as row r of the grid before the delete.         *)
DeleteThenAddKeepsRow ==
    DeletedInRange =>
        \E k \in DOMAIN ReAdded : BagOf(ReAdded[k]) = RowBag(Before, gres.args[1])

(* C11, amended: the delete followed by the add keeps the multiset of the   *)
(* whole grid; row r holds the multiset it held before whenever row r had   *)
(* at least two buttons or was the last row of the grid.                    *)
DeleteThenAddKeepsGrid ==
    DeletedInRange =>
        LET r == gres.args[1] IN
        /\ BagOf(Flatten(ReAdded)) = BagOf(Flatten(Before))
        /\ (Len(Before[r + 1]) >= 2 \/ r = Len(Before) - 1) =>
               /\ r < Len(ReAdded)
               /\ RowBag(ReAdded, r) = RowBag(Before, r)

\* a delete emptied and pruned the last row, and the add built it again
DeletedAndReAddedLastRow ==
    /\ DeletedInRange
    /\ Len(grid) < Len(Before)
    /\ gres.args[1] = Len(Before) - 1
    /\ Len(Before) = 2
    /\ Len(ReAdded) = 2

(* C12: reformat_columns is idempotent: for every grid, empty rows or not,  *)
(* and every n >= 1, reformatting the result of reformat_columns(G, n) with *)
(* the same n returns that result again.                                    *)
ReformatIdempotent ==
    (Ran("reformat_columns") /\ gres.args[1] >= 1) =>
        /\ ~gres.raised
        /\ reformat_columns(grid, gres.args[1]) = Ret(grid)

\* a grid with an empty row was reformatted into a different grid of two rows
ReformattedWithEmptyRow ==
    /\ Ran("reformat_columns")
    /\ gres.args[1] >= 1
    /\ \E k \in DOMAIN Before : Before[k] = <<>>
    /\ ButtonCount(Before) >= 2
    /\ grid # Before

\* position of cell (r, c) in the row-major list of the buttons of kb
RECURSIVE FlatIndex(_, _, _)
FlatIndex(kb, r, c) == IF r = 0 THEN c ELSE Len(Head(kb)) + FlatIndex(Tail(kb), r - 1, c)

(* C13: delete_button with an in-range (row, col) removes exactly the       *)
(* button at that coordinate, keeps every other button in its relative      *)
(* order, and removes the row if it became empty (a row that was empty      *)
(* before stays); with an out-of-range or negative row or col it returns    *)
(* the grid unchanged.                                                      *)
DeleteRemovesOne ==
    Ran("delete_button") =>
        LET r == gres.args[1]
            c == gres.args[2]
        IN /\ ~gres.raised
           /\ IF InRange(Before, r, c)
              THEN /\ Flatten(grid) = PopAt(Flatten(Before), FlatIndex(Before, r, c))
                   /\ IF Len(Before[r + 1]) = 1
                      THEN grid = PopAt(Before, r)
                      ELSE /\ Len(grid) = Len(Before)
                           /\ \A k \in DOMAIN grid : k # r + 1 => grid[k] = Before[k]
                           /\ Len(grid[r + 1]) = Len(Before[r + 1]) - 1
              ELSE grid = Before

\* the only button of the first of two rows was deleted, and the row went with it
DeletedOnlyButtonOfRow ==
    /\ DeletedInRange
    /\ gres.args[1] = 0
    /\ Len(Before) = 2
    /\ Len(Before[1]) = 1
    /\ grid = <<Before[2]>>

(* C14: add_button_to_row with the index of an existing row (an empty row   *)
(* included) appends the new button at the end of that row and leaves the   *)
(* number of rows and every other row unchanged; with a null, negative or   *)
(* out-of-range index it appends one new row holding only the new button    *)
(* and leaves the existing rows unchanged.                                  *)
AddButtonAppends ==
    Ran("add_button_to_row") =>
        LET row_index == gres.args[1]
            b == gres.args[2]
        IN /\ ~gres.raised
           /\ IF row_index # <<>> /\ 0 <= row_index[1] /\ row_index[1] < Len(Before)
              THEN /\ Len(grid) = Len(Before)
                   /\ grid[row_index[1] + 1] = Append(Before[row_index[1] + 1], b)
                   /\ \A k \in DOMAIN grid : k # row_index[1] + 1 => grid[k] = Before[k]
              ELSE grid = Append(Before, <<b>>)

\* a button was added to an empty second row, as after add_row
AddedToEmptyRow ==
    /\ Ran("add_button_to_row")
    /\ gres.args[1] = <<1>>
    /\ Len(Before) = 2
    /\ Before[1] # <<>>
    /\ Before[2] = <<>>
    /\ grid = <<Before[1], <<gres.args[2]>>>>

----------------------------------------------------------------------------
(* Properties of the builder (checked under SpecBuild)                     *)

Built == gres.op \in {"build_inline_markup", "cb_kb_payload"}
Cells == Flatten(grid)
Emitted == Flatten(gres.markup)

\* a button without URL whose action token is longer than 64 bytes
LongTokenNoUrl(btn) ==
    /\ ~Truthy(btn.url)
    /\ Truthy(btn.callback_data)
    /\ ByteLen(btn.callback_data) > MAX_CALLBACK_BYTES

\* emitted button i is "kb_payload:<id>" and a load of id gives back the token of cell i
Externalized(i) ==
    /\ i \in DOMAIN Emitted
    /\ Emitted[i].url = NoneV
    /\ \E id \in make_short_id :
          /\ Emitted[i].callback_data = "kb_payload:" \o id
          /\ get_payload(callback_payloads, id) = <<[callback |-> Cells[i].callback_data]>>

\* every store of the build got an id that was not in the table yet
FreshIds ==
    /\ \A k \in DOMAIN gres.args : gres.args[k] \notin DOMAIN gres.before
    /\ \A k, j \in DOMAIN gres.args : k # j => gres.args[k] # gres.args[j]

RowLens(kb) == [k \in DOMAIN kb |-> Len(kb[k])]
NonEmpty(n) == n > 0

(* C16: the builder's output has exactly one row for each non-empty row of  *)
(* the grid, in the same order, each with as many buttons as the grid row   *)
(* (one emitted button per button: URL, short token, over-long token or     *)
(* malformed); empty grid rows give no output row.                          *)
BuilderKeepsShape ==
    Built =>
        /\ RowLens(gres.markup) = SelectSeq(RowLens(grid), NonEmpty)
        /\ \A i \in DOMAIN Cells : Emitted[i].text = Cells[i].text

\* a grid with an empty row before a row of a malformed and an over-long button was built
BuiltAroundEmptyRow ==
    /\ Built
    /\ grid = <<<<>>, <<Bare, LongTok>>>>
    /\ Len(gres.markup) = 1
    /\ Len(gres.markup[1]) = 2

----------------------------------------------------------------------------
(* Properties of the draft session (checked under SpecDraft)               *)

DraftPost(u) == _sessions[u].post[1]
HasDraftPost(u) == HasDraft(u) /\ _sessions[u].post # <<>>

\* the working copy has an image and a caption of more than 1024 characters, or no
\* image and a body of more than 4096
Overlong(post) ==
    \/ Truthy(post.photo_file_id) /\ post.text \in {"cap1025", "body4097"}
    \/ ~Truthy(post.photo_file_id) /\ post.text = "body4097"

\* the handler that has just run is cb_publish, on the session of u
PublishRan(u) == last'.h = "cb_publish" /\ HasDraftPost(u)

\* no transport send, no write to the posts table, the session still open
NothingSentOrWritten(u) ==
    /\ calls' = <<>>
    /\ writes' = <<>>
    /\ db' = db
    /\ live' = live
    /\ u \in DOMAIN _sessions'

SameUpToUrl(a, b) ==
    \/ b = a
    \/ Truthy(a.url) /\ b = [a EXCEPT !.url = validate_button_url(a.url)[2]]

\* the grids have the same rows of the same buttons up to the normalization of URLs
SameUpToUrls(ka, kb) ==
    /\ Len(ka) = Len(kb)
    /\ \A r \in DOMAIN ka :
          /\ Len(ka[r]) = Len(kb[r])
          /\ \A c \in DOMAIN ka[r] : SameUpToUrl(ka[r][c], kb[r][c])

PublishAccepted == last = Ended("cb_publish", "-", "ok")

\* the row of the posts table holds the coordinates of the message the publish created
HoldsCoordinates(row) ==
    \E key \in DOMAIN live :
        /\ key[1] = calls[1].chat
        /\ row.published_message_id = <<key[2]>>
        /\ row.published_link = PublishedLink(key[1], key[2])
        /\ row.published_channel = key[1]

\* C18: after a publish the transport accepted, the posts table holds a record for the
\* session's post with status published and with published_message_id, published_link
\* and published_channel set to the channel and message id of the publication.
PublishStoresCoordinates ==
    PublishAccepted =>
        \A u \in DOMAIN _sessions :
            /\ HasDraftPost(u)
            /\ DraftPost(u).id # <<>>
            /\ DraftPost(u).id[1] \in DOMAIN db
            /\ db[DraftPost(u).id[1]].status = "published"
            /\ HoldsCoordinates(db[DraftPost(u).id[1]])

\* the record of the posts table with this id holds the text, image reference and
\* keyboard of the working copy
RecordEquals(rows, id, post) ==
    /\ id \in DOMAIN rows
    /\ rows[id].text = post.text
    /\ rows[id].photo_file_id = post.photo_file_id
    /\ json_loads(rows[id].keyboard_json) = <<post.keyboard>>

\* the handler that has just run is cb_save_draft, on the working copy of u
SaveRan(u) == last'.h = "cb_save_draft" /\ HasDraftPost(u)

\* C19: save-draft creates a record only when the working copy has no id and updates
\* the existing record otherwise; after it the posts table holds the record of the
\* session's post, equal to the working copy in text, image reference and keyboard,
\* and the session's post carries that record's id.
SaveDraftKeepsOneRecord ==
    [][\A u \in Users :
          SaveRan(u) =>
              /\ u \in DOMAIN _sessions'
              /\ _sessions'[u].post # <<>>
              /\ _sessions'[u].post[1].id # <<>>
              /\ RecordEquals(db', _sessions'[u].post[1].id[1], DraftPost(u))
              /\ IF DraftPost(u).id = <<>>
                 THEN /\ _sessions'[u].post[1].id[1] \notin DOMAIN db
                      /\ DOMAIN db' = (DOMAIN db) \cup {_sessions'[u].post[1].id[1]}
                 ELSE /\ _sessions'[u].post[1].id = DraftPost(u).id
                      /\ DOMAIN db' = DOMAIN db]_vars

\* the button has no text, or neither a URL nor an action token
Malformed(b) == b.text = NoneV \/ (~Truthy(b.url) /\ ~Truthy(b.callback_data))

HasMalformed(kb) == \E i \in DOMAIN Flatten(kb) : Malformed(Flatten(kb)[i])

----------------------------------------------------------------------------
(* Properties of the input modes of the edit session (checked under Spec). *)

\* some field capture is pending for the operator: sess["awaiting"] is "text" or "photo"
FieldPending(u) == HasSession(u) /\ sessions[u].awaiting # NoneV

\* some keyboard-editor prompt is pending for the operator: a KBStates state is set
PromptPending(u) == fsm[u].state # NoneV

(* C21: for each operator of the edit session at most one input mode is     *)
(* active: a pending field capture (awaiting = text or photo) and a pending *)
(* keyboard-editor prompt (a KBStates state) are never active together.     *)
OneInputMode == \A u \in Users : ~(FieldPending(u) /\ PromptPending(u))

----------------------------------------------------------------------------
(* Properties of the Long-Payload Store (checked under SpecStore).         *)

\* the last call was op
StoreRan(op) == gres.op = op

(* C22: for any sequence of store, load and delete calls, a load of t       *)
(* returns the payload stored under t when t was returned by a store and    *)
(* not deleted since, and None otherwise, without raising (also on a row    *)
(* that does not deserialize); a delete of an absent id leaves the table    *)
(* unchanged; a store never changes a row the table already held.           *)
StoreLoadDelete ==
    /\ StoreRan("get_payload") =>
          /\ ~gres.raised
          /\ gres.result = IF gres.input \in DOMAIN gres.kept
                           THEN <<gres.kept[gres.input]>> ELSE <<>>
    /\ (StoreRan("delete_payload") /\ gres.input \notin DOMAIN gres.before) =>
          callback_payloads = gres.before
    /\ StoreRan("store_payload") =>
          \A x \in DOMAIN gres.before :
              x \in DOMAIN callback_payloads /\ callback_payloads[x] = gres.before[x]

\* a load returned the payload stored under its id, in a table that also holds a
\* row that does not deserialize
StoredPayloadLoaded ==
    /\ StoreRan("get_payload")
    /\ "000000000001" \in DOMAIN callback_payloads
    /\ callback_payloads["000000000001"] = Corrupt
    /\ gres.input = "000000000002" /\ gres.result = <<[callback |-> "longtok"]>>

----------------------------------------------------------------------------
(* Properties of the URL validator (checked under SpecUrl).                *)

UrlRan == gres.op \in {"validate_button_url", "validate_again"}

\* a channel-message deep link: http or https, host t.me, a username, an integer
DeepLinkShape(p) ==
    /\ Lower(p.scheme) \in {"http", "https"}
    /\ p.userinfo = "" /\ Lower(p.host) = "t.me" /\ p.port = ""
    /\ Len(p.path) = 2 /\ p.path[1] # "" /\ IsDigits(p.path[2])

\* a URL whose scheme is http or https and whose host is not empty
HttpShape(p) == Lower(p.scheme) \in {"http", "https"} /\ p.host \notin {"", "[bad"}

\* the normalized form of a deep link
HttpsForm(p) == [strip(p) EXCEPT !.scheme = "https", !.host = "t.me"]

(* C23: the validator is total and accepts exactly two shapes: a deep link, *)
(* returned in its https form, and any other URL with scheme http or https  *)
(* and a non-empty host; every other input is Invalid; validating a         *)
(* returned URL again returns Valid with the same string.                   *)
UrlAcceptsExactlyTwoShapes ==
    /\ UrlRan =>
          /\ ~gres.raised
          /\ gres.result[1] <=> (DeepLinkShape(gres.input) \/ HttpShape(gres.input))
          /\ gres.result[1] = (gres.result[2] # <<>>)
          /\ DeepLinkShape(gres.input) => gres.result[2] = <<HttpsForm(gres.input)>>
    /\ gres.op = "validate_again" =>
          /\ gres.again[1]
          /\ UrlText(gres.again[2][1]) = UrlText(gres.result[2][1])

\* the same with the second shape read as "the authority is not empty"
UrlAcceptsByAuthority ==
    /\ UrlRan =>
          /\ ~gres.raised
          /\ gres.result[1] <=>
                \/ DeepLinkShape(gres.input)
                \/ /\ Lower(gres.input.scheme) \in {"http", "https"}
                   /\ gres.input.userinfo \o gres.input.host \o gres.input.port # ""
                   /\ gres.input.host # "[bad"
          /\ gres.result[1] = (gres.result[2] # <<>>)
          /\ DeepLinkShape(gres.input) => gres.result[2] = <<HttpsForm(gres.input)>>
          /\ (gres.result[1] /\ ~DeepLinkShape(gres.input)) =>
                gres.result[2] = <<strip(gres.input)>>
    /\ gres.op = "validate_again" =>
          /\ gres.again[1]
          /\ UrlText(gres.again[2][1]) = UrlText(gres.result[2][1])

\* the table of the sessions' URLs agrees with the validator on parts
UrlTableAgrees ==
    (UrlRan /\ UrlText(gres.input) \in {"https://example.com", "http://t.me/chan/5",
                                        "https://t.me/chan/5", "tok"})
        => /\ validate_button_url(UrlText(gres.input))[1] = gres.result[1]
           /\ gres.result[1] =>
                validate_button_url(UrlText(gres.input))[2] = UrlText(gres.result[2][1])

----------------------------------------------------------------------------
(* Properties of move_button (checked under SpecMove).                     *)

NoEmptyRow(kb) == \A r \in DOMAIN kb : kb[r] # <<>>

\* the case of C24: no empty row, the source a cell, the target an existing
\* row other than the source row, the target column within that row
MoveToOtherRow ==
    /\ gres.op = "move_button"
    /\ NoEmptyRow(gres.input)
    /\ InRange(gres.input, gres.args[1], gres.args[2])
    /\ 0 <= gres.args[3] /\ gres.args[3] < Len(gres.input) /\ gres.args[3] # gres.args[1]
    /\ 0 <= gres.args[4] /\ gres.args[4] <= Len(gres.input[gres.args[3] + 1])

\* the source row held one button only, so the move removes it
SourceRowPruned == Len(gres.input[gres.args[1] + 1]) = 1

\* where the row that had index to_r is after the move
TargetIndexAfter ==
    IF SourceRowPruned /\ gres.args[3] > gres.args[1] THEN gres.args[3] - 1 ELSE gres.args[3]

(* C24: on a grid without empty rows, with the source in range and the      *)
(* target an existing row other than the source row and a column within it, *)
(* move_button puts the moved button at column to_c of the row that had     *)
(* index to_r before the move, also when the emptied source row is removed  *)
(* and the rows after it shift down by one.                                 *)
MoveLandsInTargetRow ==
    MoveToOtherRow =>
        /\ ~gres.raised
        /\ grid[TargetIndexAfter + 1] =
              InsertAt(gres.input[gres.args[3] + 1], gres.args[4],
                       gres.input[gres.args[1] + 1][gres.args[2] + 1])
        /\ grid[TargetIndexAfter + 1][gres.args[4] + 1] =
              gres.input[gres.args[1] + 1][gres.args[2] + 1]

\* [[a],[b,c]], (0,0) to (1,0) gave [[a,b,c]]
MovedAfterPrunedRow ==
    /\ MoveToOtherRow /\ SourceRowPruned
    /\ gres.args = <<0, 0, 1, 0>>
    /\ Len(grid) = 1 /\ Len(grid[1]) = 3
    /\ grid[1][1].text = "a" /\ grid[1][2].text = "b" /\ grid[1][3].text = "c"

----------------------------------------------------------------------------
(* Properties of reformat_columns (checked under SpecLaw).                 *)

\* max(n, 1) for the n of the call
ColsUsed == IF gres.args[1] <= 0 THEN 1 ELSE gres.args[1]

(* C25: for every non-empty grid and every integer n, reformat_columns      *)
(* returns the buttons of the grid in unchanged row-major order, in rows of *)
(* exactly max(n, 1) buttons except possibly the last, which has between 1  *)
(* and max(n, 1); the result has no empty row and as many buttons as the    *)
(* grid it was given.                                                       *)
ReformatChunks ==
    (Ran("reformat_columns") /\ Before # <<>>) =>
        /\ ~gres.raised
        /\ Flatten(grid) = Flatten(Before)
        /\ ButtonCount(grid) = ButtonCount(Before)
        /\ \A r \in DOMAIN grid :
              /\ grid[r] # <<>>
              /\ r < Len(grid) => Len(grid[r]) = ColsUsed
              /\ r = Len(grid) => 1 <= Len(grid[r]) /\ Len(grid[r]) <= ColsUsed

\* three buttons in rows of one and two were laid out in rows of two and one
ReformattedWithShortLastRow ==
    /\ Ran("reformat_columns")
    /\ gres.args[1] = 2
    /\ Len(Before) = 2 /\ Len(Before[1]) = 1 /\ Len(Before[2]) = 2
    /\ Len(grid) = 2 /\ Len(grid[1]) = 2 /\ Len(grid[2]) = 1
    /\ grid[1][1] = Before[1][1] /\ grid[1][2] = Before[2][1] /\ grid[2][1] = Before[2][2]

----------------------------------------------------------------------------
(* Properties of the edit-button flow (checked under Spec and SpecDraft).  *)

\* the edit session of u is at the second prompt of the edit-button flow: the
\* next two-line message makes kb_new_button_data write the recorded cell
EditReplacementDue(u) ==
    /\ HasSession(u)
    /\ fsm[u].state = "waiting_new_button_text_url"

\* the same for the draft session of u (state await_new_button_text_url)
DraftReplacementDue(u) ==
    /\ HasDraftPost(u)
    /\ _sessions[u].state = "await_new_button_text_url"

(* C26: whenever the edit-button replacement of the edit session is         *)
(* executed, the recorded target (row, col) is a cell of the grid that is   *)
(* current at that moment, whatever the operator did between the two        *)
(* prompts (cancel, apply_all, /editpost on another post, other buttons).   *)
EditTargetInRange ==
    \A u \in Users :
        EditReplacementDue(u) =>
            /\ fsm[u].kb_edit_target # <<>>
            /\ InRange(sessions[u].keyboard, fsm[u].kb_edit_target[1], fsm[u].kb_edit_target[2])

\* the same for the draft session, where state and target live in the session
DraftTargetInRange ==
    \A u \in DOMAIN _sessions :
        DraftReplacementDue(u) =>
            /\ _sessions[u].kb_edit_target # <<>>
            /\ InRange(DraftPost(u).keyboard, TargetGet(_sessions[u], "row_index")[1],
                       TargetGet(_sessions[u], "col_index")[1])

----------------------------------------------------------------------------
(* Properties of the buttons the sessions hold (checked under Spec).       *)

\* non-empty text and exactly one of a URL and an action token
OneTarget(b) ==
    /\ Truthy(b.text)
    /\ Truthy(b.url) # Truthy(b.callback_data)

(* C27: after any sequence of grid-editing actions of a session (add        *)
(* button, edit button, delete, move, reformat) every button of the         *)
(* session's grid has non-empty text and exactly one of a URL and an action *)
(* token, never both and never neither.                                     *)
SessionButtonsHaveOneTarget ==
    \A u \in DOMAIN sessions :
        \A i \in DOMAIN Flatten(sessions[u].keyboard) :
            OneTarget(Flatten(sessions[u].keyboard)[i])

\* the same for the draft session, on the grids its own editor builds
DraftButtonsHaveOneTarget ==
    (scope = "keys") =>
        \A u \in DOMAIN _sessions :
            HasDraftPost(u) =>
                \A i \in DOMAIN Flatten(DraftPost(u).keyboard) :
                    OneTarget(Flatten(DraftPost(u).keyboard)[i])

----------------------------------------------------------------------------
(* Properties of the rows of a draft session's grid (checked under         *)
(* SpecDraft).                                                              *)

\* the draft session of u is at rest: it has a working copy and its state is idle
DraftAtRest(u) == HasDraftPost(u) /\ _sessions[u].state = "idle"

EmptyRowAppeared(u) ==
    /\ HasDraftPost(u) /\ NoEmptyRow(DraftPost(u).keyboard)
    /\ u \in DOMAIN _sessions' /\ _sessions'[u].post # <<>>
    /\ ~NoEmptyRow(_sessions'[u].post[1].keyboard)

----------------------------------------------------------------------------
(* Properties of validate_keyboard_structure (checked under SpecValidate). *)

ValidationRan == gres.op = "validate_keyboard_structure"

InputCells == Flatten(gres.input)

HasValidUrl(b) == Truthy(b.url) /\ validate_button_url(b.url)[1]
HasShortToken(b) == Truthy(b.callback_data) /\ ByteLen(b.callback_data) <= MAX_CALLBACK_BYTES

\* non-empty text and exactly one of a valid URL and a non-empty token of at most 64 bytes
ButtonAsSpecified(b) ==
    /\ Truthy(b.text)
    /\ HasValidUrl(b) # HasShortToken(b)
    /\ ~(Truthy(b.url) /\ Truthy(b.callback_data))

\* the only defect of the grid is a token of more than 64 bytes
OnlyTokensTooLong ==
    /\ \E i \in DOMAIN InputCells : ~ButtonAsSpecified(InputCells[i])
    /\ \A i \in DOMAIN InputCells :
          \/ ButtonAsSpecified(InputCells[i])
          \/ /\ Truthy(InputCells[i].text) /\ ~Truthy(InputCells[i].url)
             /\ Truthy(InputCells[i].callback_data)

(* C29: structural validation returns Ok only if every button of the grid   *)
(* carries non-empty text and exactly one of a valid URL and a non-empty    *)
(* action token of at most 64 bytes; empty text, both kinds, neither, an    *)
(* invalid URL or an over-long token make it return an error, and the       *)
(* over-long-token error is told apart from the others.                     *)
ValidationOkOnlyAsSpecified ==
    ValidationRan =>
        /\ gres.ok <=> \A i \in DOMAIN InputCells : ButtonAsSpecified(InputCells[i])
        /\ OnlyTokensTooLong => gres.reason = "too long"
        /\ gres.reason = "too long" =>
              \E i \in DOMAIN InputCells : ByteLen(InputCells[i].callback_data) > MAX_CALLBACK_BYTES

\* what the code accepts: the "text" key is there, a URL or a token (or both) is
\* there, the URL if any is valid and the token if any has at most 64 bytes
ButtonAccepted(b) ==
    /\ b.text # NoneV
    /\ Truthy(b.url) \/ Truthy(b.callback_data)
    /\ Truthy(b.url) => validate_button_url(b.url)[1]
    /\ Truthy(b.callback_data) => ByteLen(b.callback_data) <= MAX_CALLBACK_BYTES

ValidationOkAsCoded ==
    ValidationRan =>
        /\ gres.ok <=> \A i \in DOMAIN InputCells : ButtonAccepted(InputCells[i])
        /\ gres.reason = "too long" =>
              \E i \in DOMAIN InputCells : ByteLen(InputCells[i].callback_data) > MAX_CALLBACK_BYTES

----------------------------------------------------------------------------
(* Properties of the tokens the builder emits (checked under SpecBuild).   *)

\* the emitted button number i is an action button
ActionButton(i) == Truthy(Emitted[i].callback_data)

(* C30: every action button the builder emits carries a token of at most    *)
(* 64 UTF-8 bytes: a short token emitted as it is, "kb_payload:" and the id *)
(* of a stored token, the cut token used when the store failed, and the     *)
(* token made from the text of a button without URL and token.              *)
EmittedTokensFit ==
    Built =>
        \A i \in DOMAIN Emitted :
            ActionButton(i) => ByteLen(Emitted[i].callback_data) <= MAX_CALLBACK_BYTES

\* one build emitted a stored token, a token cut after the store failed and a
\* token cut from the text of a button of 25 wide characters
EmittedEveryLongForm ==
    /\ Built
    /\ \E i \in DOMAIN Emitted : Emitted[i].callback_data \in {"kb_payload:" \o id : id \in make_short_id}
    /\ \E i \in DOMAIN Emitted : Emitted[i].callback_data = "longtok[:64]"
    /\ \E i \in DOMAIN Emitted : Emitted[i].callback_data = "btn:wide15"

----------------------------------------------------------------------------
(* Field capture in the edit session (checked under Spec).                 *)

\* the router hands a text message of operator u to a handler: a KBStates
\* handler when a prompt is pending, catch_edit_responses otherwise
TextMessageHandled(u) ==
    \/ \E idx \in IntInputs \ {<<>>} : kb_row_index_received(u, idx)
    \/ \E b \in ButtonInputs : b.lines > 0 /\ kb_button_data_received(u, b)
    \/ \E rc \in CoordInputs \ {<<>>} : kb_delete_coords(u, rc)
    \/ \E rc \in CoordInputs \ {<<>>} : kb_edit_coords(u, rc)
    \/ \E b \in ButtonInputs : b.lines > 0 /\ kb_new_button_data(u, b)
    \/ \E rc \in CoordInputs \ {<<>>} : kb_move_source(u, rc)
    \/ \E rc \in CoordInputs \ {<<>>} : kb_move_target(u, rc)
    \/ \E n \in IntInputs \ {<<>>} : kb_format_cols(u, n)
    \/ \E msg \in FieldInputs : Truthy(msg.text) /\ catch_edit_responses(u, msg)

(* C31: a field-edit request sets awaiting to that field; while awaiting =  *)
(* text a text message sets the staged text and clears awaiting, while      *)
(* awaiting = photo a photo, document or animation sets the staged image    *)
(* and clears awaiting; any other message leaves awaiting and every staged  *)
(* and original value unchanged; with awaiting clear a message changes      *)
(* nothing in the session.  Here: every text message an operator sends      *)
(* while awaiting = text leaves awaiting clear, and every message that      *)
(* catch_edit_responses handles is treated as stated.                       *)
AwaitedFieldCaptured ==
    [][\A u \in Users :
          /\ (HasSession(u) /\ sessions[u].awaiting = "text" /\ TextMessageHandled(u))
                => (HasSession(u)' /\ sessions'[u].awaiting = NoneV)
          /\ \A action \in {"text", "photo"} :
                (\E m \in menus[u].main : editpost_await(u, m, action))
                => sessions'[u].awaiting = action]_vars

\* what catch_edit_responses does with the messages it is handed
CaptureWhenHandled ==
    [][\A u \in Users : \A msg \in FieldInputs :
          catch_edit_responses(u, msg) =>
             LET s == sessions[u]
                 t == sessions'[u]
             IN CASE s.awaiting = "text" /\ Truthy(msg.text) ->
                       t = [s EXCEPT !.text = msg.text, !.awaiting = NoneV]
                  [] s.awaiting = "photo" /\ Truthy(msg.file_id) ->
                       t = [s EXCEPT !.photo_file_id = msg.file_id, !.awaiting = NoneV]
                  [] OTHER -> t = s]_vars

----------------------------------------------------------------------------
(* Transitions of the draft session (checked under SpecDraft).             *)

\* operator u has a draft session that holds a post
HoldsPost(u) == HasDraft(u) /\ _sessions[u].post # <<>>

(* C32: /newpost creates the session in state await_text; a free-text      *)
(* message received in await_text, await_new_text or idle sets post.text    *)
(* and leaves the session idle; an image message received in any state of   *)
(* a session sets post.photo_file_id and leaves the session idle.  The      *)
(* session holds a post (a session whose post is None has no text or image  *)
(* to set).                                                                 *)
DraftTransitions ==
    [][\A u \in Users :
          /\ cmd_newpost(u) =>
                /\ HasDraft(u)'
                /\ _sessions'[u].state = "await_text"
                /\ _sessions'[u].post = <<NewPost>>
          /\ \A msg \in TextMessages :
                (/\ HoldsPost(u)
                 /\ _sessions[u].state \in {"await_text", "await_new_text", "idle"}
                 /\ handle_text_and_state(u, msg))
                => /\ _sessions'[u].state = "idle"
                   /\ _sessions'[u].post = <<[_sessions[u].post[1] EXCEPT !.text = msg.text]>>
          /\ (HoldsPost(u) /\ handle_photo(u, "photo1"))
                => /\ _sessions'[u].state = "idle"
                   /\ _sessions'[u].post =
                         <<[_sessions[u].post[1] EXCEPT !.photo_file_id = "photo1"]>>]_vars

\* an image arrived while a button was awaited: the session is idle with the
\* image stored, and the target of the interrupted prompt is still there
PhotoEndedPrompt ==
    \E u \in Users : /\ HoldsPost(u)
                     /\ _sessions[u].state = "idle"
                     /\ _sessions[u].post[1].photo_file_id = "photo1"
                     /\ _sessions[u].kb_edit_target # <<>>

\* the answer the prompt of state st accepts: it parses, and a button's URL is valid
WellFormed(st, msg) ==
    CASE st \in {"await_kb_row_index_for_add"} -> msg.kind = "int"
      [] st \in {"await_format_cols"} -> msg.kind = "int" /\ msg.n > 0
      [] st \in {"await_button_text_url", "await_new_button_text_url"} ->
            msg.kind = "button" /\ validate_button_url(msg.second)[1]
      [] OTHER -> msg.kind = "coords"

\* the state a sub-flow is in after a well-formed answer given in state st
AfterAnswer(st) ==
    CASE st = "await_kb_row_index_for_add" -> {"await_button_text_url"}
      [] st = "await_edit_coords" -> {"await_new_button_text_url", "idle"}
      [] st = "await_move_source" -> {"await_move_target"}
      [] OTHER -> {"idle"}

(* C33: every grid-editing sub-flow of the draft session (add, delete,     *)
(* edit, move, format) ends at idle: a well-formed answer to a prompt moves *)
(* the session to the second prompt of the sub-flow or to idle, and from    *)
(* the second prompt to idle, so that idle is reached after at most two     *)
(* messages; a malformed answer leaves the session in the same state with   *)
(* the grid unchanged.                                                      *)
SubflowsReturnToIdle ==
    [][\A u \in Users : \A msg \in IntMessages \cup CoordMessages \cup ButtonMessages :
          (/\ HoldsPost(u)
           /\ _sessions[u].state \in PromptedStates
           /\ handle_text_and_state(u, msg))
          => IF WellFormed(_sessions[u].state, msg)
             THEN _sessions'[u].state \in AfterAnswer(_sessions[u].state)
             ELSE _sessions'[u] = _sessions[u]]_vars

----------------------------------------------------------------------------
(* From publication to the edit session (checked under SpecPublished).     *)

\* the post of row p was published to channel C as message M
PublishedAs(p, C, M) ==
    /\ p \in DOMAIN db
    /\ db[p].status = "published"
    /\ <<C, M>> \in DOMAIN live
    /\ db[p].published_link = PublishedLink(C, M)
    /\ db[p].published_message_id = <<M>>

(* C34: for a post that was published through the draft session to channel *)
(* C and got message id M, /editpost with the post's stored id resolves the *)
(* coordinates (C, M): it is not refused as unresolved, and the session it  *)
(* opens when the bot has the rights has chat_id = C, message_id = M and    *)
(* original and staged text, image and keyboard equal to the stored row.    *)
EditOpensPublication ==
    [][\A u \in Users : \A arg \in EditpostArgs : \A C \in Channels : \A M \in 1..MaxPublished :
          (arg.kind = "id" /\ PublishedAs(arg.id, C, M) /\ cmd_editpost(u, arg))
          => /\ last'.a # "unresolved"
             /\ last'.a = "open" =>
                   LET s == sessions'[u]
                       row == db[arg.id]
                   IN /\ s.post_id = <<arg.id>>
                      /\ s.chat_id = C
                      /\ s.message_id = M
                      /\ s.text = row.text /\ s.orig_text = row.text
                      /\ s.photo_file_id = row.photo_file_id
                      /\ s.orig_photo_file_id = row.photo_file_id
                      /\ s.keyboard = RowKeyboard(row)
                      /\ s.orig_keyboard = RowKeyboard(row)]_vars

----------------------------------------------------------------------------
(* Two applies at once (checked under SpecRace).                           *)

\* both handlers have run to their end and reported success
BothApplied == At(TextOperator, "done") /\ At(KeyboardOperator, "done")

----------------------------------------------------------------------------
(* The status of a stored post (checked under SpecDraft).                  *)

(* C36: the status of a post is monotonic: once a row of the posts table    *)
(* has status published, no action of the draft session (edits, save-draft, *)
(* publish, preview, open-draft) sets it back to draft.                     *)
PublishedStaysPublished ==
    [][\A p \in DOMAIN db :
          (db[p].status = "published" /\ p \in DOMAIN db') => db'[p].status = "published"]_vars

----------------------------------------------------------------------------
(* The live message and its row (checked under Spec).                      *)

\* a text as it shows: no text, "" and the zero-width placeholder show alike
Shown(text) == IF Truthy(text) /\ text # ZWSP THEN text ELSE NoneV

\* the message session s edits and the row it writes agree on text, image and keyboard
Agree(s, lv, rows) ==
    LET key == <<s.chat_id, s.message_id>>
        p == s.post_id[1]
    IN /\ key \in DOMAIN lv
       /\ p \in DOMAIN rows
       /\ Shown(lv[key].text) = Shown(rows[p].text)
       /\ lv[key].photo = rows[p].photo_file_id
       /\ lv[key].keyboard = rows[p].keyboard

(* C37: if the live message and the row of the post agree on text, image    *)
(* and keyboard when the edit session is opened, they agree again after     *)
(* every apply that reports success (apply_text, apply_photo,               *)
(* apply_keyboard, apply_all): no successful apply changes a field of the   *)
(* live message without recording the same value in the row.                *)
AppliesKeepMessageAndRowEqual ==
    [][\A u \in Users :
          (/\ HasSession(u)
           /\ origin[u] = "cmd_editpost"
           /\ HasPostId(sessions[u])
           /\ Agree(sessions[u], live, db)
           /\ last'.a \in ApplyActions
           /\ last'.res = "ok")
          => Agree(sessions[u], live', db')]_vars

----------------------------------------------------------------------------
\* C38: parsing the link publish derived gives back the channel it was derived
\* from and the message id M, for a public channel @name and for a channel id
\* -100<digits>
PublishedLinkRoundTrips ==
    gres.op = "parsed_published" => gres.parsed = <<gres.channel, <<gres.message>>>>

\* the links of public channels do come back
PublicLinkRoundTrips ==
    gres.op = "parsed_published" /\ gres.channel \in {"@chan", "@c"}
        => gres.parsed = <<gres.channel, <<gres.message>>>>

\* a link spelling c/<digits>/<number> is read as message <digits> of the channel @c
PrivateLinkReadAsPublic ==
    gres.op \in {"parsed_published", "parsed_pasted"} /\ Len(LinkPath(gres.link)) = 3
        => gres.parsed[1] = "@c"


----------------------------------------------------------------------------
\* a move_button call of a button onto the coordinates it already has, on a grid
\* with no empty row
MovedOntoItself ==
    /\ gres.op = "move_button"
    /\ NoEmptyRow(gres.input)
    /\ gres.args[1] = gres.args[3] /\ gres.args[2] = gres.args[4]
    /\ InRange(gres.input, gres.args[1], gres.args[2])

\* C39: move_button(G, r, c, r, c), for a grid G with no empty row and (r, c) in
\* range, returns a grid equal to G, also when the button is the only one of its row
MoveOntoItselfIsIdentity ==
    MovedOntoItself => ~gres.raised /\ grid = gres.input

\* the move is the identity when the row holds another button, or is the last row
MoveOntoItselfInSharedOrLastRow ==
    /\ MovedOntoItself
    /\ \/ Len(gres.input[gres.args[1] + 1]) > 1
       \/ gres.args[1] = Len(gres.input) - 1
    => ~gres.raised /\ grid = gres.input


----------------------------------------------------------------------------
(* The edit session opened from a pasted link, where the bot administers a *)
(* second channel: message 10 of @c exists and is no post of the table.    *)
(* The operator opens a session, stages a text and applies it.             *)

LinkedArgs ==
    {[kind |-> "link", id |-> 0, link |-> "https://t.me/chan/10"],
     [kind |-> "link", id |-> 0, link |-> "https://t.me/c/10"]}

\* /editpost <link>, the "text" button, the text typed, and apply_text
NextLinked ==
    \/ \E u \in Users, arg \in LinkedArgs : cmd_editpost(u, arg)
    \/ \E u \in Users : \E m \in menus[u].main : editpost_await(u, m, "text")
    \/ \E u \in Users, msg \in FieldInputs : catch_edit_responses(u, msg)
    \/ \E u \in Users : \E m \in menus[u].main, o1, o2 \in Outcomes : apply_text(u, m, o1, o2)

\* the channel messages: the published post, and message 10 of the channel @c
LinkedLive ==
    InitialLive @@ (<<"@c", 10>> :> [text |-> "c0", photo |-> NoneV, keyboard |-> <<>>])

InitLinked ==
    /\ sessions = <<>>
    /\ fsm = [u \in Users |-> FsmClear]
    /\ db = InitialPosts
    /\ live = LinkedLive
    /\ menus = [u \in Users |-> NoMenus]
    /\ origin = [u \in Users |-> "none"]
    /\ last = Ended("start", "-", "-")
    /\ twice = FALSE
    /\ calls = <<>>
    /\ writes = <<>>
    /\ scope = "fields"
    /\ GridIdle
    /\ DraftIdle

SpecLinked == InitLinked /\ [][NextLinked]_vars

\* the row of the session's post_id is published at the session's chat_id and message_id
WritesOwnRow(s) ==
    s.post_id # <<>> /\ s.post_id[1] \in DOMAIN db
        => /\ db[s.post_id[1]].published_channel = s.chat_id
           /\ db[s.post_id[1]].published_message_id = <<s.message_id>>

\* C40: a session opened from a message link that carries a post_id has the
\* publication coordinates of that row as its chat_id and message_id
LinkedSessionWritesOwnRow ==
    \A u \in DOMAIN sessions : origin[u] = "cmd_editpost" => WritesOwnRow(sessions[u])

====
